---- MODULE Spec2Model ----
(***************************************************************************)
(* Procedural building generation (rekt::make_building and the routines it  *)
(* drives: floor/belt stack, roof, window placement).                       *)
(*                                                                          *)
(* Conventions of the model                                                 *)
(*  - Lengths and heights are integers, multiples of one length quantum      *)
(*    (0.5 in the units of the source's examples: W = 10 is 20 quanta).      *)
(*  - A float that is the result of a division is an extended rational       *)
(*    [num, den]: den = 0 encodes the IEEE-754 results of dividing by zero   *)
(*    (num > 0: +inf, num < 0: -inf, num = 0: NaN).                          *)
(*  - A polygon is the sequence of its side lengths, in vertex order, the    *)
(*    closing side last.  Side lengths are the only attribute of a border    *)
(*    that window placement reads.                                           *)
(*  - A mesh (ygl::shape) is the sequence of the solids merged into it.      *)
(*  - One draw of the RNG is a value r in 0..RMax-1 standing for r/RMax in   *)
(*    [0,1); a probability p is an integer standing for p/RMax.              *)
(***************************************************************************)
EXTENDS Integers, Sequences, FiniteSets, TLC

\* ---------------------------------------------------------------- bounds
RMax == 3          \* resolution of the RNG draws and of the ratios
MaxFloors == 3     \* largest num_floors tried
MaxSide == 20      \* longest polygon side tried in the window family

\* ------------------------------------------------------- program constants
HalfPi == 4        \* rekt::pi / 2.f, angles counted in units of pi/8
UnsignedModulus == 65536   \* wrap of `unsigned num_floors`, narrowed to 16 bits

NULL == [null |-> TRUE]

\* ------------------------------------------------------ float arithmetic
Abs(x) == IF x < 0 THEN -x ELSE x

Sign(x) == IF x > 0 THEN 1 ELSE IF x < 0 THEN -1 ELSE 0

\* a / b as a float: finite when b # 0, else +inf, -inf or NaN
R(a, b) ==
    IF b = 0 THEN [num |-> Sign(a), den |-> 0]
    ELSE IF b < 0 THEN [num |-> -a, den |-> -b]
    ELSE [num |-> a, den |-> b]

RInt(a) == R(a, 1)

RAdd(x, y) == R(x.num * y.den + y.num * x.den, x.den * y.den)

RMul(x, y) == R(x.num * y.num, x.den * y.den)

IsFinite(x) == x.den # 0

IsNaN(x) == x.den = 0 /\ x.num = 0

\* x = a / b for a finite x
REq(x, a, b) == IsFinite(x) /\ b # 0 /\ x.num * b = a * x.den

\* x <= y and x < y on finite values
RLeq(x, y) == IsFinite(x) /\ IsFinite(y) /\ x.num * y.den <= y.num * x.den

\* int(a / b) of C++: truncation toward zero (b # 0)
trunc_div(a, b) == Sign(a) * Sign(b) * (Abs(a) \div Abs(b))

\* floor(sqrt(x))
isqrt(x) == CHOOSE k \in 0..x : k * k <= x /\ (k + 1) * (k + 1) > x

\* -------------------------------------------------------------- geometry
Reverse(q) == [k \in 1..Len(q) |-> q[Len(q) + 1 - k]]

\* 1000 * 2*sin(pi/n): the side of a regular n-gon of radius 1
Chord(n) == CASE n = 3 -> 1732 [] n = 4 -> 1414 [] n = 6 -> 1000 [] OTHER -> 1000

\* What a throwing function hands back: a failure reason or a value.
Throw(msg) == [err |-> msg, val |-> NULL]

Ok(v) == [err |-> "", val |-> v]

\* Side lengths of the regular polygon; throws below three sides.
make_regular_polygon(num_sides, radius) ==
    IF num_sides <= 2 THEN Throw("A polygon must have at least 3 sides.")
    ELSE Ok([k \in 1..num_sides |-> (Abs(radius) * Chord(num_sides)) \div 1000])

\* Border of the widened spine, right side forward then left side backward.
\* The spine is a straight line given by its abscissae, so every miter angle
\* is a right angle: the border is the segments, the far cap, the segments
\* backward and the near cap (the closing side).
make_wide_line_border(points, width) ==
    LET segs == [k \in 1..(Len(points) - 1) |-> Abs(points[k + 1] - points[k])]
    IN  segs \o <<Abs(width)>> \o Reverse(segs) \o <<Abs(width)>>

\* Polygon offsetting of a right-angled border by signed distance d: every
\* side moves by d on both of its ends; a border that an inward offset
\* consumes yields no polygon at all.
offset_polygon(polygon, d) ==
    LET moved == [k \in 1..Len(polygon) |-> polygon[k] + 2 * d]
    IN  IF \E k \in 1..Len(polygon) : moved[k] <= 0 THEN <<>> ELSE <<moved>>

\* Stand-ins for what indexing an empty vector may read.
GarbagePolygons == {<<1, 1, 1>>}

\* polys[0] of the source.  On an empty result the read is undefined: the
\* build may crash or go on with whatever memory holds.
IndexZero(polys) ==
    IF Len(polys) > 0 THEN {[crash |-> FALSE, poly |-> polys[1]]}
    ELSE {[crash |-> TRUE, poly |-> <<>>]} \cup
         {[crash |-> FALSE, poly |-> g] : g \in GarbagePolygons}

\* expand_polygon returns the one polygon of an outward offset.
expand_polygon(polygon, d) == [k \in 1..Len(polygon) |-> polygon[k] + 2 * d]

\* ---------------------------------------------------------------- meshes
EmptyShape == <<>>

\* The solid of height `thickness` over `border`, based at height 0.
thicken_polygon(border, thickness) ==
    <<[kind |-> "solid", border |-> border, y |-> 0, h |-> thickness]>>

displace(shp, dy) == [k \in 1..Len(shp) |-> [shp[k] EXCEPT !.y = @ + dy]]

merge_shapes(dst, src) == dst \o src

make_instance(name, shp) == [name |-> name, shp |-> shp]

\* ---------------------------------------------------------- probability
\* bernoulli throws on a probability outside [0,1] ...
bernoulli_throws(p) == p < 0 \/ p > RMax

\* ... and otherwise answers from one draw r.
bernoulli(p, r) == r > p

\* ------------------------------------------------------------ parameters
\* enum class building_type, and a discriminant outside the declared set
BuildingTypes == {"main_points", "border", "regular"}

\* enum class roof_type
RoofTypes == {"none", "crossgabled", "crosshipped", "pyramid"}

\* A window mesh: its name and get_size(shape).x, or the null pointer.
NullShape == [null |-> TRUE, name |-> "", size_x |-> 0]

WindowShape(name, size_x) == [null |-> FALSE, name |-> name, size_x |-> size_x]

get_size_x(shp) == shp.size_x

\* struct windows_params, defaults of make_test_windows scaled to quanta
BaseWin ==
    [ windows_distance            |-> 2,
      windows_distance_from_edges |-> 1,
      closed_window_shape         |-> WindowShape("closed", 2),
      open_window_shape           |-> WindowShape("open", 4),
      open_windows_ratio          |-> RMax,
      filled_spots_ratio          |-> RMax ]

\* struct roof_params
BaseRoof ==
    [ type          |-> "none",
      roof_angle    |-> 2,
      thickness     |-> -1,
      rake_overhang |-> 0,
      roof_overhang |-> 0,
      hip_depth     |-> 0,
      roof_height   |-> 3 ]

\* struct building_params
BaseParams ==
    [ type                  |-> "main_points",
      floor_main_points     |-> <<0, 20>>,
      floor_width           |-> 6,
      floor_border          |-> <<20, 6, 20, 6>>,
      num_sides             |-> 4,
      radius                |-> 10,
      num_floors            |-> 1,
      floor_height          |-> 4,
      belt_height           |-> 1,
      belt_additional_width |-> 1,
      width_delta_per_floor |-> 0,
      roof_pars             |-> BaseRoof,
      win_pars              |-> BaseWin ]

\* Inputs that exercise the window arithmetic: one floor over a rectangle
\* a x 3, every mix of window width, edge clearance and spacing.
WindowFamily ==
    { [BaseParams EXCEPT
         !.type = "border",
         !.floor_border = <<a, 3, a, 3>>,
         !.win_pars = [BaseWin EXCEPT
             !.windows_distance = s,
             !.windows_distance_from_edges = eps,
             !.open_window_shape = WindowShape("open", ow),
             !.closed_window_shape = WindowShape("closed", 4),
             !.filled_spots_ratio = 1,
             !.open_windows_ratio = RMax]] :
      a \in 1..MaxSide, s \in {1, 2}, eps \in {0, 1}, ow \in {2, 6} }

\* Inputs that exercise the window parameters: every spacing sign, null and
\* non-null meshes, every ratio from below 0 to above 1.
RatioFamily ==
    { [BaseParams EXCEPT
         !.type = "border",
         !.floor_border = <<7, 3, 7, 3>>,
         !.win_pars = [BaseWin EXCEPT
             !.windows_distance = s,
             !.closed_window_shape = cs,
             !.open_window_shape = os,
             !.open_windows_ratio = orat,
             !.filled_spots_ratio = frat]] :
      s \in {-1, 0, 2},
      cs \in {NullShape, WindowShape("closed", 2)},
      os \in {NullShape, WindowShape("open", 4)},
      orat \in -1..(RMax + 1), frat \in -1..(RMax + 1) }

\* Inputs that exercise the floor stack: every building type, floor counts
\* from 0, heights and widths around 0, shrinking and growing floors.
FloorFamily ==
    { [BaseParams EXCEPT
         !.type = ty,
         !.num_floors = nf,
         !.floor_height = fh,
         !.belt_height = bh,
         !.belt_additional_width = baw,
         !.width_delta_per_floor = wd,
         !.floor_width = IF ty = "main_points" THEN fw ELSE 6,
         !.num_sides = IF ty = "regular" THEN ns ELSE 4] :
      ty \in BuildingTypes \cup {"other"},
      nf \in 0..MaxFloors, fh \in {0, 4}, bh \in {-1, 0, 1},
      baw \in {-1, 0, 1}, wd \in {-4, 0, 2}, fw \in {0, 6}, ns \in {2, 4} }

\* Inputs that exercise the roof: every roof type on every building type,
\* angles from below 0 to above pi/2, with and without thickness.
RoofFamily ==
    { [BaseParams EXCEPT
         !.type = ty,
         !.roof_pars = [BaseRoof EXCEPT
             !.type = rt,
             !.roof_angle = ang,
             !.thickness = th,
             !.rake_overhang = oh[1],
             !.roof_overhang = oh[2]]] :
      ty \in BuildingTypes,
      rt \in RoofTypes \cup {"other"},
      ang \in -1..(HalfPi + 1), th \in {-1, 1},
      oh \in {<<0, 0>>, <<-1, 0>>, <<0, -1>>, <<1, 1>>} }

\* Inputs that exercise the roof over a stack: every roof type on every
\* building type over one to MaxFloors floors, with and without belts, on
\* both width-delta paths.
StackFamily ==
    { [BaseParams EXCEPT
         !.type = ty,
         !.num_floors = nf,
         !.belt_height = bh,
         !.width_delta_per_floor = wd,
         !.roof_pars = [BaseRoof EXCEPT !.type = rt, !.thickness = 1]] :
      ty \in BuildingTypes, rt \in RoofTypes,
      nf \in 1..MaxFloors, bh \in {0, 1}, wd \in {0, 2} }

\* Inputs with windows on more than one floor: two floors over a short
\* spine, of one width or widening, some slots kept and some not.
StoreyFamily ==
    { [BaseParams EXCEPT
         !.floor_main_points = <<0, 8>>,
         !.num_floors = 2,
         !.width_delta_per_floor = wd,
         !.win_pars = [BaseWin EXCEPT
             !.filled_spots_ratio = 1,
             !.open_windows_ratio = 1]] : wd \in {0, 2} }

ParamsSpace ==
    WindowFamily \cup RatioFamily \cup FloorFamily \cup RoofFamily
        \cup StackFamily \cup StoreyFamily

\* ----------------------------------------------------------------- roofs
\* 1000 * tanf(angle) for the angles strictly inside (0, pi/2)
Tan(angle) == CASE angle = 1 -> 414 [] angle = 2 -> 1000 [] angle = 3 -> 2414
                [] OTHER -> 0

\* num_floors - 1 in unsigned arithmetic: 0 - 1 wraps to the largest value
minus_one_unsigned(n) == (n - 1) % UnsignedModulus

\* make_roof_crossgabled_simple letting a flat roof (angle 0) through
make_roof_crossgabled_flat(floor_main_points, floor_width, roof_angle, base_height) ==
    IF roof_angle < 0 \/ roof_angle >= HalfPi THEN Throw("Invalid roof angle")
    ELSE Ok(<<[kind   |-> "crossgabled",
               border |-> make_wide_line_border(floor_main_points, floor_width),
               y      |-> base_height,
               h      |-> (Tan(roof_angle) * floor_width) \div 2000]>>)

make_roof_crossgabled_simple(floor_main_points, floor_width, roof_angle, base_height) ==
    IF roof_angle <= 0 \/ roof_angle >= HalfPi THEN Throw("Invalid roof angle")
    ELSE Ok(<<[kind   |-> "crossgabled",
               border |-> make_wide_line_border(floor_main_points, floor_width),
               y      |-> base_height,
               h      |-> (Tan(roof_angle) * floor_width) \div 2000]>>)

make_roof_crosshipped_simple(floor_main_points, floor_width, roof_angle, hip_depth, base_height) ==
    LET g == make_roof_crossgabled_simple(floor_main_points, floor_width,
                                          roof_angle, base_height)
    IN  IF g.err # "" THEN g
        ELSE Ok(<<[g.val[1] EXCEPT !.kind = "crosshipped"]>>)

make_roof_pyramid_from_border(border, roof_height, base_height) ==
    <<[kind   |-> "pyramid",
       border |-> border,
       y      |-> IF base_height > 0 THEN base_height ELSE 0,
       h      |-> roof_height]>>

make_roof_pyramid_from_main_points(floor_main_points, floor_width, roof_height, base_height) ==
    make_roof_pyramid_from_border(
        make_wide_line_border(floor_main_points, floor_width),
        roof_height, base_height)

make_roof_crossgabled_thickness(floor_main_points, floor_width, roof_angle, thickness, rake_overhang, roof_overhang, base_height) ==
    IF rake_overhang < 0 \/ roof_overhang < 0 THEN Throw("Invalid arguments.")
    ELSE Ok(<<[kind   |-> "thickness",
               border |-> make_wide_line_border(floor_main_points, floor_width),
               y      |-> base_height,
               h      |-> (Tan(roof_angle) * floor_width) \div 2000]>>)

\* get_building_height counting a belt above the top floor as well
get_building_height_belted(num_floors, floor_height, belt_height) ==
    num_floors * (floor_height + belt_height)

get_building_height(num_floors, floor_height, belt_height) ==
    num_floors * floor_height + minus_one_unsigned(num_floors) * belt_height

\* What make_roof_from_params can do: crash, throw `err` after having built
\* `built` meshes, or return the roof and its thickness shell.
RoofOutcome(crash, err, built, r, t) ==
    [crash |-> crash, err |-> err, built |-> built, r_shp |-> r, t_shp |-> t]

RoofReturn(built, r) == RoofOutcome(FALSE, "", built + 1, r, EmptyShape)

\* The roof needs a spine: if (params.type != building_type::main_points)
crossgabled_needs_spine(P) == P.type # "main_points"

\* the cross-hipped case without its building-type check
crosshipped_any_shape(P) == FALSE

crosshipped_needs_spine(P) == P.type # "main_points"

make_roof_from_params(P) ==
    LET r_pars == P.roof_pars
        base_height == get_building_height(P.num_floors, P.floor_height, P.belt_height)
        floor_width == P.floor_width + P.width_delta_per_floor * minus_one_unsigned(P.num_floors)
    IN  CASE r_pars.type = "none" -> {RoofReturn(1, EmptyShape)}
          [] r_pars.type = "crossgabled" ->
                IF crossgabled_needs_spine(P)
                THEN {RoofOutcome(FALSE, "Invalid parameters", 0, EmptyShape, EmptyShape)}
                ELSE LET g == make_roof_crossgabled_simple(
                                  P.floor_main_points, floor_width,
                                  r_pars.roof_angle, base_height)
                         th == make_roof_crossgabled_thickness(
                                  P.floor_main_points, floor_width, r_pars.roof_angle,
                                  r_pars.thickness, r_pars.rake_overhang,
                                  r_pars.roof_overhang, base_height)
                     IN  IF g.err # ""
                         THEN {RoofOutcome(FALSE, g.err, 0, EmptyShape, EmptyShape)}
                         ELSE IF r_pars.thickness > 0
                         THEN IF th.err # ""
                              THEN {RoofOutcome(FALSE, th.err, 1, EmptyShape, EmptyShape)}
                              ELSE {RoofOutcome(FALSE, "", 2, g.val, th.val)}
                         ELSE {RoofReturn(1, g.val)}
          [] r_pars.type = "crosshipped" ->
                IF crosshipped_needs_spine(P)
                THEN {RoofOutcome(FALSE, "Invalid parameters", 0, EmptyShape, EmptyShape)}
                ELSE LET hp == make_roof_crosshipped_simple(
                                  P.floor_main_points, floor_width, r_pars.roof_angle,
                                  r_pars.hip_depth, base_height)
                     IN  IF hp.err # ""
                         THEN {RoofOutcome(FALSE, hp.err, 0, EmptyShape, EmptyShape)}
                         ELSE {RoofReturn(1, hp.val)}
          [] r_pars.type = "pyramid" ->
                CASE P.type = "main_points" ->
                        {RoofReturn(1, make_roof_pyramid_from_main_points(
                            P.floor_main_points, floor_width,
                            r_pars.roof_height, base_height))}
                  [] P.type = "border" ->
                        {IF o.crash
                         THEN RoofOutcome(TRUE, "", 0, EmptyShape, EmptyShape)
                         ELSE RoofReturn(1, make_roof_pyramid_from_border(
                                  o.poly, r_pars.roof_height, base_height)) :
                         o \in IndexZero(offset_polygon(
                                  P.floor_border,
                                  P.width_delta_per_floor * minus_one_unsigned(P.num_floors)))}
                  [] P.type = "regular" ->
                        LET rp == make_regular_polygon(
                                      P.num_sides,
                                      P.radius + P.width_delta_per_floor
                                                   * minus_one_unsigned(P.num_floors))
                        IN  IF rp.err # ""
                            THEN {RoofOutcome(FALSE, rp.err, 0, EmptyShape, EmptyShape)}
                            ELSE {RoofReturn(1, make_roof_pyramid_from_border(
                                      rp.val, r_pars.roof_height, base_height))}
                  [] OTHER ->
                        {RoofOutcome(FALSE, "Invalid building type", 0, EmptyShape, EmptyShape)}
          [] OTHER -> {RoofOutcome(FALSE, "Invalid roof type", 0, EmptyShape, EmptyShape)}

\* ---------------------------------------------------------------- floors
\* The argument checks of the three floor builders.
floors_from_border_invalid(P) ==
    P.num_floors <= 0 \/ P.floor_height <= 0 \/
    P.belt_height < 0 \/ P.belt_additional_width <= 0

floors_from_main_points_invalid(P) ==
    P.floor_width <= 0 \/ P.num_floors <= 0 \/ P.floor_height <= 0 \/
    P.belt_height < 0 \/ P.belt_additional_width < 0

\* The builder's first act: its check, then the ground-floor border.
\* make_floors_from_regular checks nothing itself; only the polygon
\* constructor can throw.
floors_entry(P) ==
    CASE P.type = "main_points" ->
            IF floors_from_main_points_invalid(P) THEN Throw("Invalid arguments")
            ELSE Ok(make_wide_line_border(P.floor_main_points, P.floor_width))
      [] P.type = "border" ->
            IF floors_from_border_invalid(P) THEN Throw("Invalid arguments")
            ELSE Ok(P.floor_border)
      [] P.type = "regular" -> make_regular_polygon(P.num_sides, P.radius)
      [] OTHER -> Throw("Invalid building type")

\* The floor builder's scratch meshes on the heap: the mesh each of the
\* pointers floor and belt holds, the meshes allocated and not yet deleted,
\* the meshes deleted, and what was done to a mesh that was no longer there.
NoScratch ==
    [floor |-> [var |-> "null", no |-> 0], belt |-> [var |-> "null", no |-> 0],
     live |-> {}, deleted |-> {}, misuse |-> {}]

\* var = thicken_polygon(...) or new ygl::shape(), for floor i
heap_new(hp, var, i) ==
    [hp EXCEPT ![var] = [var |-> var, no |-> i],
               !.live = @ \cup {[var |-> var, no |-> i]}]

\* merge_shapes(_, var) or displace(var->pos, _)
heap_use(hp, var) ==
    IF hp[var] \in hp.live THEN hp
    ELSE [hp EXCEPT !.misuse = @ \cup {"use after delete"}]

\* delete var
heap_delete(hp, var) ==
    IF hp[var] \in hp.live
    THEN [hp EXCEPT !.live = @ \ {hp[var]}, !.deleted = @ \cup {hp[var]}]
    ELSE [hp EXCEPT !.misuse = @ \cup {"delete of a deleted mesh"}]

\* up to the loop: floor and belt are made, floor is merged
floors_heap_begin(hp) ==
    heap_use(heap_new(heap_new(hp, "floor", 0), "belt", 0), "floor")

\* the loop body for floor i
floors_heap_step(hp, P, i) ==
    LET merged == heap_use(hp, "belt")
        moved == IF P.width_delta_per_floor = 0
                 THEN heap_use(heap_use(merged, "belt"), "floor")
                 ELSE LET gone == heap_delete(heap_delete(merged, "floor"), "belt")
                          made == heap_new(heap_new(gone, "floor", i), "belt", i)
                      IN  heap_use(heap_use(made, "floor"), "belt")
    IN  heap_use(moved, "floor")

\* the floor builder's end with delete belt left out
floors_heap_end_leaky(hp) == heap_delete(hp, "floor")

\* delete floor; delete belt; before the return
floors_heap_end(hp) == heap_delete(heap_delete(hp, "floor"), "belt")

\* The scratch floor and belt and the two result meshes.
FloorState(fl, bl, fs, bs) ==
    [floor |-> fl, belt |-> bl, floor_shp |-> fs, belt_shp |-> bs]

\* From the first thicken_polygon to the first merge_shapes.
floors_begin(floor_border, P) ==
    LET fl == thicken_polygon(floor_border, P.floor_height)
        bl == IF P.belt_height <= 0 THEN EmptyShape
              ELSE displace(
                     thicken_polygon(
                       expand_polygon(floor_border, P.belt_additional_width),
                       P.belt_height),
                     P.floor_height)
    IN  FloorState(fl, bl, merge_shapes(EmptyShape, fl), EmptyShape)

\* Loop body, width delta 0: the scratch pair is moved up one storey.
floors_step_same_width(st, P) ==
    LET bs == merge_shapes(st.belt_shp, st.belt)
        bl == displace(st.belt, P.floor_height + P.belt_height)
        fl == displace(st.floor, P.floor_height + P.belt_height)
    IN  FloorState(fl, bl, merge_shapes(st.floor_shp, fl), bs)

\* floors_step_new_width merging the belt after rebuilding it
floors_step_late_belt(st, P, i, floor_border, belt_border) ==
    LET fl == displace(thicken_polygon(floor_border, P.floor_height),
                       (P.floor_height + P.belt_height) * i)
        bl == displace(thicken_polygon(belt_border, P.belt_height),
                       (P.floor_height + P.belt_height) * i + P.floor_height)
        bs == merge_shapes(st.belt_shp, bl)
    IN  FloorState(fl, bl, merge_shapes(st.floor_shp, fl), bs)

\* Loop body, width delta # 0: the scratch pair is rebuilt for floor i over
\* the borders the offsetting calls returned.
floors_step_new_width(st, P, i, floor_border, belt_border) ==
    LET bs == merge_shapes(st.belt_shp, st.belt)
        fl == displace(thicken_polygon(floor_border, P.floor_height),
                       (P.floor_height + P.belt_height) * i)
        bl == displace(thicken_polygon(belt_border, P.belt_height),
                       (P.floor_height + P.belt_height) * i + P.floor_height)
    IN  FloorState(fl, bl, merge_shapes(st.floor_shp, fl), bs)

\* Floor i's border on the width-delta path, per building type.
floor_border_of_floor(P, i) ==
    CASE P.type = "main_points" ->
            {[crash |-> FALSE,
              poly |-> make_wide_line_border(
                          P.floor_main_points,
                          P.floor_width + P.width_delta_per_floor * i)]}
      [] P.type = "border" ->
            IndexZero(offset_polygon(P.floor_border, P.width_delta_per_floor * i))
      [] OTHER ->
            {[crash |-> FALSE,
              poly |-> make_regular_polygon(
                          P.num_sides,
                          P.radius + P.width_delta_per_floor * i).val]}

\* Belt i's border on the width-delta path, per building type.
belt_border_of_floor(P, i, floor_border) ==
    IF P.type = "border"
    THEN IndexZero(offset_polygon(
             P.floor_border,
             P.belt_additional_width + P.width_delta_per_floor * i))
    ELSE IndexZero(offset_polygon(floor_border, P.belt_additional_width))

\* --------------------------------------------------------------- windows
\* check_win_info letting a ratio just above 1 through
check_win_info_lax(w) ==
    w.windows_distance < 0 \/
    w.closed_window_shape = NullShape \/ w.open_window_shape = NullShape \/
    w.open_windows_ratio < 0 \/ w.open_windows_ratio > RMax \/
    w.filled_spots_ratio < 0 \/ w.filled_spots_ratio > RMax + 1

check_win_info(w) ==
    w.windows_distance < 0 \/
    w.closed_window_shape = NullShape \/ w.open_window_shape = NullShape \/
    w.open_windows_ratio < 0 \/ w.open_windows_ratio > RMax \/
    w.filled_spots_ratio < 0 \/ w.filled_spots_ratio > RMax

\* every floor's windows laid along the ground floor's border
window_border_of_ground_floor(P, i) ==
    {[crash |-> FALSE, err |-> "",
      poly |-> IF P.type = "border" THEN P.floor_border
               ELSE make_wide_line_border(P.floor_main_points, P.floor_width)]}

\* The border make_windows computes for floor i.
window_border(P, i) ==
    CASE P.type = "main_points" ->
            {[crash |-> FALSE, err |-> "",
              poly |-> make_wide_line_border(
                          P.floor_main_points,
                          P.floor_width + P.width_delta_per_floor * i)]}
      [] P.type = "border" ->
            {[crash |-> o.crash, err |-> "", poly |-> o.poly] :
             o \in IndexZero(offset_polygon(P.floor_border,
                                            P.width_delta_per_floor * i))}
      [] P.type = "regular" ->
            LET rp == make_regular_polygon(
                          P.num_sides, P.radius + P.width_delta_per_floor * i)
            IN  {[crash |-> FALSE, err |-> rp.err,
                  poly |-> IF rp.err = "" THEN rp.val ELSE <<>>]}
      [] OTHER -> {[crash |-> FALSE, err |-> "Invalid building type", poly |-> <<>>]}

\* Window's width: the wider of the two meshes.
window_width(w) ==
    IF get_size_x(w.open_window_shape) > get_size_x(w.closed_window_shape)
    THEN get_size_x(w.open_window_shape)
    ELSE get_size_x(w.closed_window_shape)

\* num_windows with the fit test off by one: a window that fills the side
\* exactly is counted
num_windows_tight(W, w, eps, s) ==
    IF w + 2 * eps > W THEN 0
    ELSE trunc_div(W - w - 2 * eps, w + s) + 1

\* Number of windows fitting on a side of length W.
num_windows(W, w, eps, s) ==
    IF w + 2 * eps >= W THEN 0
    ELSE trunc_div(W - w - 2 * eps, w + s) + 1

\* the spacing taken over n gaps instead of n - 1
respread_over_n(W, w, eps, n) == R(W - 2 * eps - n * w, n)

\* s = (W - 2*eps - n*w) / (n - 1): the spacing that spreads n windows.
respread(W, w, eps, n) == R(W - 2 * eps - n * w, n - 1)

\* if (n == 1) eps = W / 2.f
recenter(W, eps, n) == IF n = 1 THEN R(W, 2) ELSE RInt(eps)

\* eps + w / 2.f + (w + s)*j: the slot's distance from the side's first vertex
win_center(eps, w, s, j) ==
    RAdd(RAdd(eps, R(w, 2)), RMul(RAdd(RInt(w), s), RInt(j)))

\* floor_height / 2.f + (floor_height + belt_height)*i
win_center_y(P, i) ==
    RAdd(R(P.floor_height, 2), RInt((P.floor_height + P.belt_height) * i))

\* ------------------------------------------------- meshes, index by index
\* Below, a mesh is what ygl::shape holds: the number of positions and of
\* normals, and the faces as tuples of 0-based position indices.  `touched`
\* is every element access made while building it, as <<index, size of the
\* array at that moment>>.
MaxPoints == 4     \* most points of a polyline tried
MaxSides == 6      \* most vertices of a polygon tried

Mesh(npos, quads, triangles, nnorm, touched) ==
    [npos |-> npos, quads |-> quads, triangles |-> triangles,
     nnorm |-> nnorm, touched |-> touched]

\* triangulate of a polygon without holes: the library's B-2 triangles, each
\* copied out with three positions of its own, triangle k on indices
\* 3k, 3k+1, 3k+2.  `corner` tells which border vertex a position copies
\* (a fan from the first vertex).
triangulate(B) ==
    [triangles |-> [k \in 1..(B - 2) |-> <<3 * (k - 1), 3 * (k - 1) + 1, 3 * (k - 1) + 2>>],
     corner    |-> [m \in 1..(3 * (B - 2)) |->
                      LET k == (m - 1) \div 3 + 1
                          c == (m - 1) % 3
                      IN  IF c = 0 THEN 0 ELSE k + c - 1]]

\* thicken_polygon of a border of B vertices without holes: B wall quads over
\* positions 0..2B-1, then the cap triangles over positions of their own.
thicken_polygon_mesh(B, thickness) ==
    LET ps == B
        walls == [i \in 1..B |->
                    IF i < B THEN <<i - 1, i, ps + i, ps + i - 1>>
                    ELSE <<ps - 1, 0, ps, 2 * ps - 1>>]
        ps2 == 2 * B
        tr == triangulate(B)
        tsz == Len(tr.corner)
        caps == [m \in 1..(2 * Len(tr.triangles)) |->
                   LET tt == tr.triangles[(m + 1) \div 2]
                       nt == <<tt[1] + ps2, tt[2] + ps2, tt[3] + ps2>>
                   IN  IF m % 2 = 1 THEN <<nt[3], nt[2], nt[1]>>
                       ELSE <<nt[1] + tsz, nt[2] + tsz, nt[3] + tsz>>]
        npos == ps2 + 2 * tsz
    IN  Mesh(npos, walls, caps, npos, {<<0, B>>, <<1, B>>, <<2, B>>})

\* The hole walls of thicken_polygon: for each hole in turn, hs floor points
\* and hs ceiling points appended at ps, and the quads of
\* for (i = 0; i < hole.size() - 1; i++).  holes is the sequence of the
\* holes' vertex counts.
RECURSIVE hole_walls(_, _)
hole_walls(holes, ps) ==
    IF holes = <<>> THEN [quads |-> <<>>, npos |-> ps]
    ELSE LET hs == holes[1]
             rest == hole_walls(Tail(holes), ps + 2 * hs)
         IN  [quads |-> [i \in 1..(hs - 1) |->
                           <<ps + i - 1, ps + i, ps + hs + i, ps + hs + i - 1>>]
                        \o rest.quads,
              npos  |-> rest.npos]

\* thicken_polygon of a border of B vertices with holes: the outer walls, the
\* hole walls, then the caps over the positions triangulate hands back, three
\* per triangle, B + 2*(number of holes) - 2 + (hole vertices) triangles.
thicken_polygon_holes(B, thickness, holes) ==
    LET ps == B
        walls == [i \in 1..B |->
                    IF i < B THEN <<i - 1, i, ps + i, ps + i - 1>>
                    ELSE <<ps - 1, 0, ps, 2 * ps - 1>>]
        hw == hole_walls(holes, 2 * B)
        ps2 == hw.npos
        ntri == B - 2 + 2 * Len(holes) + (hw.npos - 2 * B) \div 2
        tsz == 3 * ntri
        caps == [m \in 1..(2 * ntri) |->
                   LET k == (m + 1) \div 2
                       nt == <<3 * (k - 1) + ps2, 3 * (k - 1) + 1 + ps2,
                               3 * (k - 1) + 2 + ps2>>
                   IN  IF m % 2 = 1 THEN <<nt[3], nt[2], nt[1]>>
                       ELSE <<nt[1] + tsz, nt[2] + tsz, nt[3] + tsz>>]
        npos == ps2 + 2 * tsz
    IN  Mesh(npos, walls \o hw.quads, caps, npos, {<<0, B>>, <<1, B>>, <<2, B>>})

\* the edges of a face, as unordered pairs of position indices
FaceEdges(f) == {{f[k], f[(k % Len(f)) + 1]} : k \in 1..Len(f)}

Faces(m) == {m.quads[k] : k \in 1..Len(m.quads)} \cup
            {m.triangles[k] : k \in 1..Len(m.triangles)}

\* number of faces of m that edge e borders
EdgeDegree(m, e) ==
    Cardinality({k \in 1..Len(m.quads) : e \in FaceEdges(m.quads[k])}) +
    Cardinality({k \in 1..Len(m.triangles) : e \in FaceEdges(m.triangles[k])})

IsClosedManifold(m) ==
    \A f \in Faces(m) : \A e \in FaceEdges(f) : EdgeDegree(m, e) = 2

\* the mesh invariant: every face index references a position, one normal
\* per position, and no access outside an array
IndicesValid(m) ==
    /\ \A f \in Faces(m) : \A k \in 1..Len(f) : f[k] >= 0 /\ f[k] < m.npos
    /\ m.nnorm = m.npos
    /\ \A a \in m.touched : a[1] >= 0 /\ a[1] < a[2]


\* for (int i = 0, j = shp->pos.size() - 2; i < j-2; i+=1, j-=1) of
\* make_roof_crossgabled_simple: one ridge point and three quads per turn
RECURSIVE crossgabled_loop(_, _, _)
crossgabled_loop(i, j, m) ==
    IF ~(i < j - 2) THEN m
    ELSE LET sz == m.npos + 1
         IN  crossgabled_loop(i + 1, j - 1,
                 [m EXCEPT
                    !.npos = sz,
                    !.quads = @ \o << <<j, j - 1, i + 1, i>>,
                                      <<j - 1, j, sz - 2, sz - 1>>,
                                      <<i, i + 1, sz - 1, sz - 2>> >>,
                    !.touched = @ \cup {<<i + 1, m.npos>>, <<j - 1, m.npos>>}])

\* make_roof_crossgabled_simple ending its far gable one position late
crossgabled_simple_past_end(P) ==
    LET start == Mesh(2 * P + 1, <<>>, <<>>, 0, {<<0, 2 * P>>, <<2 * P - 1, 2 * P>>})
        m == crossgabled_loop(0, (2 * P + 1) - 2, start)
    IN  [m EXCEPT !.triangles = << <<0, 2 * P, 2 * P - 1>>, <<P, m.npos, P - 1>> >>,
                  !.nnorm = m.npos]

\* make_roof_crossgabled_simple over a spine of P main points: the 2P border
\* positions, the ridge, the slope quads and the two gable triangles
crossgabled_simple_mesh(P) ==
    LET floor_points == 2 * P
        start == Mesh(floor_points + 1, <<>>, <<>>, 0,
                      {<<0, floor_points>>, <<floor_points - 1, floor_points>>})
        m == crossgabled_loop(0, (floor_points + 1) - 2, start)
    IN  [m EXCEPT
           !.triangles = << <<0, floor_points, floor_points - 1>>,
                            <<floor_points \div 2, m.npos - 1, floor_points \div 2 - 1>> >>,
           !.nnorm = m.npos]

\* make_roof_crosshipped_simple: the two ridge ends are pulled inward
crosshipped_simple_mesh(P) ==
    LET m == crossgabled_simple_mesh(P)
        fr == 2 * P
        lr == m.npos - 1
    IN  [m EXCEPT !.touched = @ \cup {<<fr, m.npos>>, <<fr + 1, m.npos>>,
                                      <<lr, m.npos>>, <<lr - 1, m.npos>>}]

\* for (int i = 0, j = floor_border.size()-1; i < j-2; i++, j--) of
\* make_roof_crossgabled_thickness: six positions per main point
RECURSIVE thickness_loop(_, _, _, _)
thickness_loop(i, j, fb, m) ==
    IF ~(i < j - 2) THEN m
    ELSE LET ps == m.npos
             bi == ps - 6
             body == << <<bi, bi + 2, bi + 8, bi + 6>>,
                        <<bi + 1, bi + 2, bi + 8, bi + 7>>,
                        <<bi + 3, bi + 9, bi + 11, bi + 5>>,
                        <<bi + 4, bi + 5, bi + 11, bi + 10>>,
                        <<bi + 1, bi + 4, bi + 10, bi + 7>>,
                        <<bi, bi + 6, bi + 9, bi + 3>> >>
             front == IF i = 0
                      THEN << <<bi + 1, bi + 2, bi + 5, bi + 4>>,
                              <<bi, bi + 3, bi + 5, bi + 2>> >>
                      ELSE <<>>
             rear == IF i = j - 3
                     THEN << <<bi + 6, bi + 8, bi + 11, bi + 9>>,
                             <<bi + 7, bi + 10, bi + 11, bi + 8>> >>
                     ELSE <<>>
         IN  thickness_loop(i + 1, j - 1, fb,
                 [m EXCEPT
                    !.npos = ps + 6,
                    !.quads = @ \o body \o front \o rear,
                    !.touched = @ \cup {<<i + 1, fb>>, <<j - 1, fb>>,
                                        <<ps, ps + 3>>, <<ps + 1, ps + 4>>,
                                        <<ps + 2, ps + 5>>}])

\* make_roof_crossgabled_thickness with j started one short of the border's
\* last index
crossgabled_thickness_short(P, rake_overhang, roof_overhang) ==
    LET fb == 2 * P
        start == Mesh(6, <<>>, <<>>, 0, {<<0, fb>>, <<fb - 1, fb>>})
        m == thickness_loop(0, fb - 2, fb, start)
    IN  [m EXCEPT !.nnorm = m.npos]

\* make_roof_crossgabled_thickness over a spine of P main points, with the
\* rake and roof overhang steps when the overhangs are positive
crossgabled_thickness_mesh(P, rake_overhang, roof_overhang) ==
    LET fb == 2 * P
        start == Mesh(6, <<>>, <<>>, 0,
                      {<<0, fb>>, <<fb - 1, fb>>, <<0, 3>>, <<1, 4>>, <<2, 5>>})
        m == thickness_loop(0, fb - 1, fb, start)
        sz == m.npos
        rake == IF rake_overhang > 0
                THEN {<<6, sz>>, <<0, sz>>, <<sz - 1, sz>>, <<sz - 7, sz>>}
                       \cup {<<i, sz>> : i \in 0..5}
                       \cup {<<i, sz>> : i \in (sz - 6)..(sz - 1)}
                ELSE {}
        over == IF roof_overhang > 0
                THEN UNION {{<<i, sz>>, <<i + 1, sz>>, <<i + 2, sz>>,
                             <<i + 3, sz>>, <<i + 4, sz>>} :
                            i \in {k \in 0..(sz - 1) : k % 6 = 0}}
                ELSE {}
    IN  [m EXCEPT !.touched = @ \cup rake \cup over, !.nnorm = sz]

\* ------------------------------------------------------- plane geometry
\* Points are [x, y] on an integer grid; angles are counted in eighths of a
\* turn (pi/4), the headings of an axis-parallel polyline being 0, 2, 4, -2.
Pt(x, y) == [x |-> x, y |-> y]

PAdd(p, q) == Pt(p.x + q.x, p.y + q.y)

PSub(p, q) == Pt(p.x - q.x, p.y - q.y)

\* 10 * cos(a * pi/4), rounded
CosTimes10(a) ==
    LET k == a % 8
    IN  CASE k = 0 -> 10 [] k = 1 -> 7 [] k = 2 -> 0 [] k = 3 -> -7
          [] k = 4 -> -10 [] k = 5 -> -7 [] k = 6 -> 0 [] OTHER -> 7

SinTimes10(a) == CosTimes10(a - 2)

\* atan2f(v.y, v.x) of an axis-parallel vector, in (-pi, pi]: pi for a
\* vector pointing along -x
atan2f(v) ==
    CASE v.y = 0 /\ v.x > 0 -> 0
      [] v.x = 0 /\ v.y > 0 -> 2
      [] v.y = 0 /\ v.x < 0 -> 4
      [] v.x = 0 /\ v.y < 0 -> -2
      [] OTHER -> 0

\* auto alpha = (alpha1 + alpha2) / 2
miter_angle(alpha1, alpha2) == (alpha1 + alpha2) \div 2

\* make_wide_line (lengthen_ends = false): the strip's vertices, two per
\* point of the line, and its quads
make_wide_line(points, width) ==
    LET half_width == width \div 2
        P == Len(points)
        ext == <<PSub(points[1], PSub(points[2], points[1]))>> \o points \o
               <<PSub(PAdd(points[P], points[P]), points[P - 1])>>
        delta(i) ==
            LET alpha == miter_angle(atan2f(PSub(ext[i], ext[i - 1])),
                                     atan2f(PSub(ext[i + 1], ext[i])))
            IN  Pt((CosTimes10(alpha + 2) * half_width) \div 10,
                   (SinTimes10(alpha + 2) * half_width) \div 10)
        vertexes == [m \in 1..(2 * P) |->
                       LET i == (m + 1) \div 2 + 1
                       IN  IF m % 2 = 1 THEN PAdd(ext[i], delta(i))
                           ELSE PSub(ext[i], delta(i))]
        starts == {i \in 0..(2 * P - 1) : i % 2 = 0 /\ i < 2 * P - 4}
    IN  [quads |-> [k \in 1..Cardinality(starts) |->
                      <<2 * (k - 1), 2 * (k - 1) + 1, 2 * (k - 1) + 3, 2 * (k - 1) + 2>>],
         pos   |-> vertexes]

\* The order in which make_wide_line_border copies a strip of sz vertices:
\* i = 0, 2, ... upward, then i = sz-1, sz-3, ... downward (0-based)
wide_line_border_order(sz) ==
    LET up == {i \in 0..(sz - 1) : i % 2 = 0}
        down == {i \in 0..(sz - 1) : (sz - 1 - i) % 2 = 0}
    IN  [k \in 1..Cardinality(up) |-> 2 * (k - 1)] \o
        [k \in 1..Cardinality(down) |-> sz - 1 - 2 * (k - 1)]

\* make_wide_line_border as a polygon of points
wide_line_border_points(points, width) ==
    LET pos == make_wide_line(points, width).pos
        order == wide_line_border_order(Len(pos))
    IN  [k \in 1..Len(order) |-> pos[order[k] + 1]]

\* twice the signed area of triangle a b c
Cross(a, b, c) == (b.x - a.x) * (c.y - a.y) - (b.y - a.y) * (c.x - a.x)

Orient(a, b, c) == Sign(Cross(a, b, c))

\* c, collinear with a and b, lies on segment ab
OnSegment(a, b, c) ==
    /\ (IF a.x < b.x THEN a.x ELSE b.x) <= c.x
    /\ c.x <= (IF a.x < b.x THEN b.x ELSE a.x)
    /\ (IF a.y < b.y THEN a.y ELSE b.y) <= c.y
    /\ c.y <= (IF a.y < b.y THEN b.y ELSE a.y)

\* segments ab and cd have a point in common
SegmentsMeet(a, b, c, d) ==
    \/ Orient(a, b, c) # Orient(a, b, d) /\ Orient(c, d, a) # Orient(c, d, b)
    \/ Orient(a, b, c) = 0 /\ OnSegment(a, b, c)
    \/ Orient(a, b, d) = 0 /\ OnSegment(a, b, d)
    \/ Orient(c, d, a) = 0 /\ OnSegment(c, d, a)
    \/ Orient(c, d, b) = 0 /\ OnSegment(c, d, b)

\* A closed polygon is simple: its sides are not degenerate, sides that are
\* not neighbours have no point in common, and neighbours do not fold back.
IsSimplePolygon(V) ==
    LET N == Len(V)
        nxt(k) == (k % N) + 1
    IN  /\ N >= 3
        /\ \A k \in 1..N : V[k] # V[nxt(k)]
        /\ \A k \in 1..N :
              ~(Orient(V[k], V[nxt(k)], V[nxt(nxt(k))]) = 0 /\
                OnSegment(V[k], V[nxt(k)], V[nxt(nxt(k))]))
        /\ \A k, l \in 1..N :
              (k < l /\ nxt(k) # l /\ nxt(l) # k)
                 => ~SegmentsMeet(V[k], V[nxt(k)], V[l], V[nxt(l)])

\* make_regular_polygon closing the polygon on its first point
regular_polygon_closed(num_sides, radius, xy_aligned) ==
    IF num_sides <= 2 THEN Throw("A polygon must have at least 3 sides.")
    ELSE Ok([k \in 1..(num_sides + 1) |->
               [turn_num |-> 2 * (k - 1) + (IF xy_aligned THEN 1 ELSE 0),
                turn_den |-> 2 * num_sides,
                radius   |-> radius]])

\* make_regular_polygon, point by point.  Point i is
\* radius * (cos(angle), sin(angle)) with angle = i*angle_step + angle0; it
\* is kept in polar form, the angle as the fraction turn_num/turn_den of a
\* full turn.
regular_polygon_points(num_sides, radius, xy_aligned) ==
    IF num_sides <= 2 THEN Throw("A polygon must have at least 3 sides.")
    ELSE Ok([k \in 1..num_sides |->
               [turn_num |-> 2 * (k - 1) + (IF xy_aligned THEN 1 ELSE 0),
                turn_den |-> 2 * num_sides,
                radius   |-> radius]])

\* ------------------------------------------- roofs, position by position
Pt3(x, y, z) == [x |-> x, y |-> y, z |-> z]

\* to_3d(points, 0, false) of make_wide_line: (x, z) becomes (x, 0, z)
to_3d(p) == Pt3(p.x, 0, p.y)

\* (a + b) / 2.f, then y raised by up
Midpoint(a, b, up) ==
    Pt3((a.x + b.x) \div 2, (a.y + b.y) \div 2 + up, (a.z + b.z) \div 2)

\* ygl::normalize of a vector along one axis, coordinate by coordinate
normalize(c) == Sign(c)

\* tanf(roof_angle) * floor_width / 2.f
center_height(roof_angle, floor_width) ==
    (Tan(roof_angle) * floor_width) \div 2000

\* the loop of make_roof_crossgabled_simple on shp->pos: one ridge position
\* pushed per round, the mean of pos[i+1] and pos[j-1] raised
RECURSIVE crossgabled_ridge(_, _, _, _)
crossgabled_ridge(i, j, pos, up) ==
    IF ~(i < j - 2) THEN pos
    ELSE crossgabled_ridge(i + 1, j - 1,
             Append(pos, Midpoint(pos[(i + 1) + 1], pos[(j - 1) + 1], up)), up)

\* make_roof_crossgabled_simple from the border's positions on: the middle
\* of the front pushed, then the loop
crossgabled_pos_of(pos0, up) ==
    crossgabled_ridge(0, Len(pos0) - 1,
                      Append(pos0, Midpoint(pos0[1], pos0[Len(pos0)], up)), up)

\* the border of the spine as 3D positions
border_pos(floor_main_points, floor_width) ==
    [k \in 1..(2 * Len(floor_main_points)) |->
        to_3d(wide_line_border_points(floor_main_points, floor_width)[k])]

\* make_roof_crossgabled_simple with the ridge left at the height of the
\* border
crossgabled_simple_flat_pos(floor_main_points, floor_width, roof_angle) ==
    crossgabled_pos_of(border_pos(floor_main_points, floor_width), 0)

\* shp->pos of make_roof_crossgabled_simple (base_height = 0)
crossgabled_simple_pos(floor_main_points, floor_width, roof_angle) ==
    crossgabled_pos_of(border_pos(floor_main_points, floor_width),
                       center_height(roof_angle, floor_width))

\* pos[at] moved by amount along normalize(pos[a] - pos[b]) (0-based indices)
Pull(pos, at, a, b, amount) ==
    [pos EXCEPT ![at + 1] =
        Pt3(@.x + normalize(pos[a + 1].x - pos[b + 1].x) * amount,
            @.y + normalize(pos[a + 1].y - pos[b + 1].y) * amount,
            @.z + normalize(pos[a + 1].z - pos[b + 1].z) * amount)]

\* the ridge's second and last-but-one positions pulled instead of its ends
hip_inner(pos, fr, hip_depth) ==
    Pull(Pull(pos, fr + 1, fr + 1, fr, hip_depth),
         Len(pos) - 2, Len(pos) - 1, Len(pos) - 2, -hip_depth)

\* make_roof_crosshipped_simple on the positions of the cross-gabled roof,
\* with lr = pos.size() - 1:
\* pos[fr] += normalize(pos[fr+1] - pos[fr]) * hip_depth and
\* pos[lr] -= normalize(pos[lr] - pos[lr-1]) * hip_depth
hip_ends(pos, fr, hip_depth) ==
    Pull(Pull(pos, fr, fr + 1, fr, hip_depth),
         Len(pos) - 1, Len(pos) - 1, Len(pos) - 2, -hip_depth)

\* make_roof_crosshipped_simple pulling the wrong positions
crosshipped_simple_inner_pos(floor_main_points, floor_width, roof_angle, hip_depth) ==
    hip_inner(crossgabled_simple_pos(floor_main_points, floor_width, roof_angle),
              2 * Len(floor_main_points), hip_depth)

\* shp->pos of make_roof_crosshipped_simple
crosshipped_simple_pos(floor_main_points, floor_width, roof_angle, hip_depth) ==
    hip_ends(crossgabled_simple_pos(floor_main_points, floor_width, roof_angle),
             2 * Len(floor_main_points), hip_depth)

\* a mesh together with its positions
WithPos(m, pos) ==
    [npos |-> m.npos, quads |-> m.quads, triangles |-> m.triangles,
     nnorm |-> m.nnorm, touched |-> m.touched, pos |-> pos]

\* ----------------------------------------------------------------- state
VARIABLES
    params,      \* the building_params record make_building was called with
    pc,          \* where make_building stands
    err,         \* reason of the exception thrown, "" if none
    floor,       \* scratch floor mesh of the floor builder
    belt,        \* scratch belt mesh of the floor builder
    floor_shp,   \* merged floors
    belt_shp,    \* merged belts
    fi,          \* loop index i of the floor builder
    r_shp,       \* roof mesh
    t_shp,       \* roof thickness mesh
    instances,   \* the instance list of make_building
    meshes,      \* number of meshes constructed so far
    heap,        \* the floor builder's scratch meshes on the heap
    wi,          \* loop index i (floor) of make_windows
    border,      \* border of floor wi in make_windows
    sk,          \* side of border that for_sides is at, from 1
    n,           \* number of windows on the side
    s,           \* re-spread spacing on the side
    eps,         \* edge clearance on the side, re-centred when n = 1
    j,           \* slot on the side
    windows,     \* window instances created so far
    win_id,      \* next window id
    rng,         \* number of draws taken from *params.rng
    tape,        \* the draws *params.rng has given from its initial state,
                 \* kept when a second run from that state is to follow
    first,       \* what the first of two runs from one state ended with
    bld,         \* main's loop index: the building being generated
    scene,       \* the scene: which building's instances point at which mesh
    writes,      \* the meshes main has rewritten, and during which building
    g_op,        \* geometry routine called on its own, "" before the call
    g_in,        \* its arguments
    g_out        \* what it returned

vars == <<params, pc, err, floor, belt, floor_shp, belt_shp, fi, r_shp, t_shp,
          instances, meshes, wi, border, sk, n, s, eps, j, windows, win_id, rng,
          tape, first, bld, scene, writes, g_op, g_in, g_out, heap>>

\* the RNG behind params.rng
rng_vars == <<rng, tape>>

\* the locals of main
main_vars == <<bld, scene, writes>>

\* a geometry routine called on its own
geom_vars == <<g_op, g_in, g_out>>

\* what no step of make_building writes
env_vars == <<params, first, main_vars, geom_vars>>

floor_vars == <<floor, belt, floor_shp, belt_shp, fi, heap>>

roof_vars == <<r_shp, t_shp>>

side_vars == <<n, s, eps, j>>

win_vars == <<wi, border, sk, n, s, eps, j, windows, win_id, rng_vars>>

Draws == 0..(RMax - 1)

\* No draw is kept: the generator's state is any.
Untaped == [kept |-> FALSE, draws |-> <<>>]

\* The draws are kept from the generator's initial state on.
Taped == [kept |-> TRUE, draws |-> <<>>]

\* a generator that pays no regard to the state it is in
next_rand1f_stateless(tp, k) == Draws

\* ygl::next_rand1f(rng), the k-th output from the initial state: a function
\* of that state and of k, so the value it had the first time round
next_rand1f(tp, k) ==
    IF tp.kept /\ k <= Len(tp.draws) THEN {tp.draws[k]} ELSE Draws

\* both draws taken for every slot, kept or not
draws_always_two(kept) == 2

\* The draws make_windows takes for one slot: bernoulli on the fill ratio,
\* and bernoulli on the open ratio if the slot is kept.
draws_for_slot(kept) == IF kept THEN 2 ELSE 1

\* the tape after output k came out as r
Drawn(tp, k, r) ==
    IF tp.kept /\ k = Len(tp.draws) + 1 THEN [tp EXCEPT !.draws = Append(@, r)]
    ELSE tp

\* Name without the running id
Name_unnumbered(base, k) == [base |-> base, k |-> 0]

\* base + std::to_string(k); k = -1 where the source appends no number
Name(base, k) == [base |-> base, k |-> k]

\* no geometry routine is being called on its own
GeomIdle == g_op = "" /\ g_in = NULL /\ g_out = NULL

\* the locals of make_building and of the routines it calls, at entry
LocalsInit ==
    /\ err = ""
    /\ floor = EmptyShape /\ belt = EmptyShape
    /\ floor_shp = EmptyShape /\ belt_shp = EmptyShape
    /\ fi = 0
    /\ r_shp = EmptyShape /\ t_shp = EmptyShape
    /\ instances = <<>>
    /\ meshes = 0 /\ heap = NoScratch
    /\ wi = 0 /\ border = <<>> /\ sk = 0
    /\ n = 0 /\ s = RInt(0) /\ eps = RInt(0) /\ j = 0
    /\ windows = <<>> /\ win_id = 0

\* the same locals, as a new call of make_building finds them
LocalsReset ==
    /\ err' = ""
    /\ floor' = EmptyShape /\ belt' = EmptyShape
    /\ floor_shp' = EmptyShape /\ belt_shp' = EmptyShape
    /\ fi' = 0
    /\ r_shp' = EmptyShape /\ t_shp' = EmptyShape
    /\ instances' = <<>>
    /\ meshes' = 0 /\ heap' = NoScratch
    /\ wi' = 0 /\ border' = <<>> /\ sk' = 0
    /\ n' = 0 /\ s' = RInt(0) /\ eps' = RInt(0) /\ j' = 0
    /\ windows' = <<>> /\ win_id' = 0

\* main is not looping and no second run is to follow
MainIdle == bld = 0 /\ scene = {} /\ writes = {} /\ first = NULL

Init ==
    /\ params \in ParamsSpace
    /\ pc = "floors"
    /\ LocalsInit
    /\ rng = 0 /\ tape = Untaped
    /\ MainIdle
    /\ GeomIdle

\* throw std::runtime_error(msg): make_building is abandoned
Fail(msg) == pc' = "failed" /\ err' = msg

\* the process dies on an undefined read
Crash == pc' = "crashed" /\ err' = err

\* make_floors_from_params up to the floor builder's loop
MakeFloorsBegin ==
    /\ pc = "floors"
    /\ LET e == floors_entry(params)
           st == floors_begin(e.val, params)
       IN  IF e.err # ""
           THEN Fail(e.err) /\ UNCHANGED <<floor_vars, meshes>>
           ELSE /\ floor' = st.floor /\ belt' = st.belt
                /\ floor_shp' = st.floor_shp /\ belt_shp' = st.belt_shp
                /\ fi' = 1
                /\ heap' = floors_heap_begin(heap)
                /\ meshes' = meshes + 4
                /\ pc' = "floor_loop" /\ err' = err
    /\ UNCHANGED <<env_vars, roof_vars, instances, win_vars>>

\* one iteration of for (int i = 1; i < num_floors; i++)
FloorsLoop ==
    /\ pc = "floor_loop"
    /\ fi < params.num_floors
    /\ IF params.width_delta_per_floor = 0
       THEN LET st == floors_step_same_width(
                          FloorState(floor, belt, floor_shp, belt_shp), params)
            IN  /\ floor' = st.floor /\ belt' = st.belt
                /\ floor_shp' = st.floor_shp /\ belt_shp' = st.belt_shp
                /\ fi' = fi + 1
                /\ heap' = floors_heap_step(heap, params, fi)
                /\ pc' = pc /\ err' = err
                /\ meshes' = meshes
       ELSE \E fo \in floor_border_of_floor(params, fi) :
            \E bo \in belt_border_of_floor(params, fi, fo.poly) :
                IF fo.crash \/ bo.crash
                THEN /\ Crash
                     /\ meshes' = IF fo.crash THEN meshes ELSE meshes + 1
                     /\ UNCHANGED floor_vars
                ELSE LET st == floors_step_new_width(
                                   FloorState(floor, belt, floor_shp, belt_shp),
                                   params, fi, fo.poly, bo.poly)
                     IN  /\ floor' = st.floor /\ belt' = st.belt
                         /\ floor_shp' = st.floor_shp /\ belt_shp' = st.belt_shp
                         /\ fi' = fi + 1
                         /\ heap' = floors_heap_step(heap, params, fi)
                         /\ pc' = pc /\ err' = err
                         /\ meshes' = meshes + 2
    /\ UNCHANGED <<env_vars, roof_vars, instances, win_vars>>

\* the floor builder returns; make_building wraps the two meshes
FloorsEnd ==
    /\ pc = "floor_loop"
    /\ ~(fi < params.num_floors)
    /\ floor' = EmptyShape /\ belt' = EmptyShape
    /\ heap' = floors_heap_end(heap)
    /\ instances' = instances \o
          <<make_instance(Name("_h1", -1), floor_shp),
            make_instance(Name("_h2", -1), belt_shp)>>
    /\ pc' = "roof"
    /\ UNCHANGED <<env_vars, err, floor_shp, belt_shp, fi, roof_vars, meshes, win_vars>>

\* make_roof_from_params, and the two roof instances
MakeRoof ==
    /\ pc = "roof"
    /\ \E o \in make_roof_from_params(params) :
          /\ meshes' = meshes + o.built
          /\ IF o.crash
             THEN Crash /\ UNCHANGED <<roof_vars, instances>>
             ELSE IF o.err # ""
             THEN Fail(o.err) /\ UNCHANGED <<roof_vars, instances>>
             ELSE /\ r_shp' = o.r_shp /\ t_shp' = o.t_shp
                  /\ instances' = instances \o
                        <<make_instance(Name("_rr", -1), o.r_shp),
                          make_instance(Name("_rt", -1), o.t_shp)>>
                  /\ pc' = "windows" /\ err' = err
    /\ UNCHANGED <<env_vars, floor_vars, win_vars>>

\* make_windows begins: check_win_info, then the empty window list
MakeWindowsBegin ==
    /\ pc = "windows"
    /\ IF check_win_info(params.win_pars)
       THEN Fail("Invalid windows parameters") /\ UNCHANGED <<wi, windows, win_id>>
       ELSE /\ wi' = 0 /\ windows' = <<>> /\ win_id' = 0
            /\ pc' = "win_floor" /\ err' = err
    /\ UNCHANGED <<env_vars, floor_vars, roof_vars, instances, meshes,
                   border, sk, side_vars, rng_vars>>

\* head of for (int i = 0; i < params.num_floors; i++): the floor's border,
\* or the return of make_windows and of make_building
WindowsFloor ==
    /\ pc = "win_floor"
    /\ IF wi < params.num_floors
       THEN \E o \in window_border(params, wi) :
               IF o.crash THEN Crash /\ UNCHANGED <<border, sk, instances>>
               ELSE IF o.err # "" THEN Fail(o.err) /\ UNCHANGED <<border, sk, instances>>
               ELSE /\ border' = o.poly /\ sk' = 1
                    /\ pc' = "win_side" /\ err' = err
                    /\ UNCHANGED instances
       ELSE /\ instances' = instances \o windows
            /\ pc' = "done" /\ err' = err
            /\ UNCHANGED <<border, sk>>
    /\ UNCHANGED <<env_vars, floor_vars, roof_vars, meshes,
                   wi, side_vars, windows, win_id, rng_vars>>

\* for_sides hands over side sk: count the windows and re-spread them
WindowsSide ==
    /\ pc = "win_side"
    /\ IF sk > Len(border)
       THEN /\ wi' = wi + 1 /\ pc' = "win_floor"
            /\ UNCHANGED <<sk, side_vars>>
       ELSE LET W == border[sk]
                w == window_width(params.win_pars)
                eps0 == params.win_pars.windows_distance_from_edges
                s0 == params.win_pars.windows_distance
                num == num_windows(W, w, eps0, s0)
            IN  IF num <= 0
                THEN /\ sk' = sk + 1 /\ pc' = pc
                     /\ UNCHANGED <<wi, side_vars>>
                ELSE /\ n' = num
                     /\ s' = respread(W, w, eps0, num)
                     /\ eps' = recenter(W, eps0, num)
                     /\ j' = 0
                     /\ pc' = "win_slot"
                     /\ UNCHANGED <<wi, sk>>
    /\ UNCHANGED <<env_vars, err, floor_vars, roof_vars, instances, meshes,
                   border, windows, win_id, rng_vars>>

\* one iteration of for (int j = 0; j < n; j++)
WindowsSlot ==
    /\ pc = "win_slot"
    /\ LET wp == params.win_pars
           w == window_width(wp)
       IN  IF ~(j < n)
           THEN /\ sk' = sk + 1 /\ pc' = "win_side" /\ err' = err
                /\ UNCHANGED <<j, windows, win_id, rng_vars>>
           ELSE \E r1 \in next_rand1f(tape, rng + 1),
                   r2 \in next_rand1f(tape, rng + 2) :
                IF bernoulli_throws(wp.filled_spots_ratio)
                THEN /\ Fail("Invalid probability value.")
                     /\ UNCHANGED <<sk, j, windows, win_id, rng_vars>>
                ELSE IF ~bernoulli(wp.filled_spots_ratio, r1)
                THEN /\ j' = j + 1 /\ rng' = rng + draws_for_slot(FALSE)
                     /\ tape' = Drawn(tape, rng + 1, r1)
                     /\ pc' = pc /\ err' = err
                     /\ UNCHANGED <<sk, windows, win_id>>
                ELSE IF bernoulli_throws(wp.open_windows_ratio)
                THEN /\ Fail("Invalid probability value.")
                     /\ rng' = rng + 1
                     /\ tape' = Drawn(tape, rng + 1, r1)
                     /\ UNCHANGED <<sk, j, windows, win_id>>
                ELSE /\ windows' = Append(windows,
                          [name  |-> Name("_", win_id),
                           shp   |-> IF bernoulli(wp.open_windows_ratio, r2)
                                     THEN wp.open_window_shape
                                     ELSE wp.closed_window_shape,
                           o     |-> win_center(eps, w, s, j),
                           y     |-> win_center_y(params, wi),
                           floor |-> wi, side |-> sk, slot |-> j])
                     /\ win_id' = win_id + 1
                     /\ j' = j + 1 /\ rng' = rng + draws_for_slot(TRUE)
                     /\ tape' = Drawn(Drawn(tape, rng + 1, r1), rng + 2, r2)
                     /\ pc' = pc /\ err' = err
                     /\ UNCHANGED sk
    /\ UNCHANGED <<env_vars, floor_vars, roof_vars, instances, meshes,
                   wi, border, n, s, eps>>

Next ==
    \/ MakeFloorsBegin
    \/ FloorsLoop
    \/ FloorsEnd
    \/ MakeRoof
    \/ MakeWindowsBegin
    \/ WindowsFloor
    \/ WindowsSide
    \/ WindowsSlot

Spec == Init /\ [][Next]_vars

\* ------------------------------------------- geometry routines on their own
\* what make_building and its callees write
building_vars ==
    <<params, pc, err, floor_vars, roof_vars, instances, meshes, win_vars,
      first, main_vars>>

\* the polyline that starts at the origin and makes one step of 80 along
\* each heading in turn
RECURSIVE Walk(_, _)
Walk(from, headings) ==
    IF headings = <<>> THEN <<from>>
    ELSE <<from>> \o
         Walk(PAdd(from, Pt(8 * CosTimes10(headings[1]), 8 * SinTimes10(headings[1]))),
              Tail(headings))

Headings == {0, 2, 4, -2}

\* axis-parallel polylines of 2..MaxPoints points that never turn back on
\* the segment they came along
Polylines ==
    { Walk(Pt(0, 0), hs) :
        hs \in { q \in UNION {[1..k -> Headings] : k \in 1..(MaxPoints - 1)} :
                   \A k \in 1..(Len(q) - 1) : (q[k] - q[k + 1]) % 8 # 4 } }

\* hip depths: none, inside the end segment, past it, and negative
HipDepths == {0, 30, 200, -30}

GeomInputs ==
    {[kind |-> "polygon", B |-> B, thickness |-> th] :
        B \in 3..MaxSides, th \in {1, 2}} \cup
    {[kind |-> "holed", B |-> B, thickness |-> 1, holes |-> hl] :
        B \in 3..MaxSides,
        hl \in UNION {[1..k -> 3..MaxPoints] : k \in 1..2}} \cup
    {[kind |-> "polyline", points |-> pts, width |-> w] :
        pts \in Polylines, w \in {20, 40}} \cup
    {[kind |-> "regular", num_sides |-> ns, radius |-> r, xy_aligned |-> al] :
        ns \in -1..MaxSides, r \in {1, 2}, al \in BOOLEAN} \cup
    {[kind |-> "spine", P |-> P, rake_overhang |-> ro, roof_overhang |-> oo] :
        P \in 2..MaxPoints, ro \in {0, 1}, oo \in {0, 1}} \cup
    {[kind |-> "ridge", points |-> pts, width |-> w, roof_angle |-> a,
      hip_depth |-> hd] :
        pts \in Polylines, w \in {20, 40}, a \in {1, 2}, hd \in HipDepths}

GeomInit ==
    /\ params = BaseParams
    /\ pc = "idle"
    /\ LocalsInit
    /\ rng = 0 /\ tape = Untaped
    /\ MainIdle
    /\ g_op = "" /\ g_in \in GeomInputs /\ g_out = NULL

\* g_out = routine(g_in)
Returns(routine, result) ==
    /\ g_op = ""
    /\ g_op' = routine
    /\ g_out' = result
    /\ UNCHANGED <<g_in, building_vars>>

CallThickenPolygon ==
    /\ g_in.kind = "polygon"
    /\ Returns("thicken_polygon", thicken_polygon_mesh(g_in.B, g_in.thickness))

CallThickenPolygonHoles ==
    /\ g_in.kind = "holed"
    /\ Returns("thicken_polygon, holes",
               thicken_polygon_holes(g_in.B, g_in.thickness, g_in.holes))

CallMakeWideLine ==
    /\ g_in.kind = "polyline"
    /\ Returns("make_wide_line", make_wide_line(g_in.points, g_in.width))

CallMakeWideLineBorder ==
    /\ g_in.kind = "polyline"
    /\ Returns("make_wide_line_border",
               wide_line_border_points(g_in.points, g_in.width))

CallMakeRegularPolygon ==
    /\ g_in.kind = "regular"
    /\ Returns("make_regular_polygon",
               regular_polygon_points(g_in.num_sides, g_in.radius, g_in.xy_aligned))

CallRoofCrossgabledSimple ==
    /\ g_in.kind = "spine"
    /\ Returns("make_roof_crossgabled_simple", crossgabled_simple_mesh(g_in.P))

CallRoofCrosshippedSimple ==
    /\ g_in.kind = "spine"
    /\ Returns("make_roof_crosshipped_simple", crosshipped_simple_mesh(g_in.P))

\* make_roof_crossgabled_simple on a spine given by its points: the mesh and
\* its positions
CallRoofCrossgabledSimplePoints ==
    /\ g_in.kind = "ridge"
    /\ Returns("make_roof_crossgabled_simple, points",
               WithPos(crossgabled_simple_mesh(Len(g_in.points)),
                       crossgabled_simple_pos(g_in.points, g_in.width,
                                              g_in.roof_angle)))

CallRoofCrosshippedSimplePoints ==
    /\ g_in.kind = "ridge"
    /\ Returns("make_roof_crosshipped_simple, points",
               WithPos(crosshipped_simple_mesh(Len(g_in.points)),
                       crosshipped_simple_pos(g_in.points, g_in.width,
                                              g_in.roof_angle, g_in.hip_depth)))

CallRoofCrossgabledThickness ==
    /\ g_in.kind = "spine"
    /\ Returns("make_roof_crossgabled_thickness",
               crossgabled_thickness_mesh(g_in.P, g_in.rake_overhang, g_in.roof_overhang))

GeomNext ==
    \/ CallThickenPolygon
    \/ CallThickenPolygonHoles
    \/ CallMakeWideLine
    \/ CallMakeWideLineBorder
    \/ CallMakeRegularPolygon
    \/ CallRoofCrossgabledSimple
    \/ CallRoofCrosshippedSimple
    \/ CallRoofCrossgabledSimplePoints
    \/ CallRoofCrosshippedSimplePoints
    \/ CallRoofCrossgabledThickness

SpecGeom == GeomInit /\ [][GeomNext]_vars

\* ------------------------------------------ two runs from one RNG state
\* Parameters for the pair of runs: a spine of one floor and a triangle of
\* one or two, every roof the type allows, fill and open ratios inside and
\* past [0, 1]; a triangle of three floors; and both outlines widening from
\* floor to floor, with the windows kept further from the corners.
TwiceParams ==
    { [BaseParams EXCEPT
         !.type = tn[1],
         !.floor_border = <<8, 5, 5>>,
         !.floor_main_points = <<0, 8>>,
         !.num_floors = tn[2],
         !.roof_pars = [BaseRoof EXCEPT !.type = rt],
         !.win_pars = [BaseWin EXCEPT
             !.filled_spots_ratio = fr,
             !.open_windows_ratio = opr]] :
        tn \in {<<"main_points", 1>>, <<"border", 1>>, <<"border", 2>>},
        rt \in {"none", "pyramid"},
        fr \in {0, 1, RMax + 1}, opr \in {0, 1, RMax + 1} }
    \cup
    { [BaseParams EXCEPT
         !.type = "border",
         !.floor_border = <<8, 5, 5>>,
         !.num_floors = 3,
         !.win_pars = [BaseWin EXCEPT
             !.filled_spots_ratio = 1,
             !.open_windows_ratio = 1]] }
    \cup
    { [BaseParams EXCEPT
         !.type = ty,
         !.floor_border = <<8, 5, 5>>,
         !.floor_main_points = <<0, 8>>,
         !.num_floors = 2,
         !.width_delta_per_floor = 2,
         !.win_pars = [BaseWin EXCEPT
             !.windows_distance_from_edges = 3,
             !.filled_spots_ratio = 1,
             !.open_windows_ratio = 1]] :
        ty \in {"main_points", "border"} }

TwiceInit ==
    /\ params \in TwiceParams
    /\ pc = "floors"
    /\ LocalsInit
    /\ rng = 0 /\ tape = Taped
    /\ MainIdle
    /\ GeomIdle

\* make_building has returned, thrown, or run into undefined behaviour
Ended == pc \in {"done", "failed", "crashed"}

\* what a caller of make_building is left with
Outcome == [pc |-> pc, err |-> err, instances |-> instances, rng |-> rng]

\* The caller keeps the outcome, puts the RNG back into the state it had and
\* calls make_building(params) again.
RunAgain ==
    /\ Ended /\ first = NULL
    /\ first' = Outcome
    /\ pc' = "floors"
    /\ LocalsReset
    /\ rng' = 0
    /\ UNCHANGED <<params, tape, main_vars, geom_vars>>

TwiceNext ==
    \/ MakeFloorsBegin
    \/ FloorsLoop
    \/ FloorsEnd
    \/ MakeRoof
    \/ MakeWindowsBegin
    \/ WindowsFloor
    \/ WindowsSide
    \/ WindowsSlot
    \/ RunAgain

SpecTwice == TwiceInit /\ [][TwiceNext]_vars

\* ------------------------------------------------ main, a row of buildings
\* buildings_per_side * buildings_per_side
MaxBuildings == 2

\* make_test_windows: the two window shapes main allocates before its loop
make_test_windows == <<WindowShape("open", 4), WindowShape("closed", 2)>>

\* make_rand_building_params(rng, open_window_shape, closed_window_shape, id):
\* the parameter sets it may return, at the model's scale. The two window
\* shapes are the pointers it was handed.
make_rand_building_params(open_window_shape, closed_window_shape) ==
    { [BaseParams EXCEPT
         !.type = ty,
         !.floor_border = <<8, 5, 5>>,
         !.floor_main_points = <<0, 8>>,
         !.num_floors = nf,
         !.roof_pars = [BaseRoof EXCEPT !.type = rt],
         !.win_pars = [BaseWin EXCEPT
             !.closed_window_shape = closed_window_shape,
             !.open_window_shape = open_window_shape,
             !.filled_spots_ratio = 1,
             !.open_windows_ratio = 1]] :
        ty \in {"main_points", "border"}, nf \in 1..2,
        rt \in {"none", "pyramid"} }

\* The mesh inst->shp points at. make_windows stores the shape pointer of
\* the parameters in the instance; every other instance gets a shape that
\* this call of make_building allocated.
MeshOf(b, inst) ==
    IF "slot" \in DOMAIN inst
    THEN [made_by |-> "make_test_windows", call |-> 0,
          mesh |-> inst.shp.name]
    ELSE [made_by |-> "make_building", call |-> b, mesh |-> inst.name.base]

CityInit ==
    /\ params \in make_rand_building_params(make_test_windows[1],
                                            make_test_windows[2])
    /\ pc = "floors"
    /\ LocalsInit
    /\ rng = 0 /\ tape = Untaped
    /\ MainIdle
    /\ GeomIdle

\* The body of main's loop after make_building has returned: facet every
\* instance's shape and recompute its normals, add the instances to the
\* scene, and go round again with fresh parameters.
MainAdopt ==
    /\ pc = "done" /\ bld < MaxBuildings
    /\ writes' = writes \cup
          { [mesh |-> MeshOf(bld, instances[k]), during |-> bld] :
              k \in 1..Len(instances) }
    /\ scene' = scene \cup
          { [building |-> bld, mesh |-> MeshOf(bld, instances[k])] :
              k \in 1..Len(instances) }
    /\ bld' = bld + 1
    /\ IF bld + 1 < MaxBuildings
       THEN /\ params' \in make_rand_building_params(make_test_windows[1],
                                                     make_test_windows[2])
            /\ pc' = "floors"
       ELSE /\ params' = params
            /\ pc' = "exit"
    /\ LocalsReset
    /\ UNCHANGED <<rng_vars, first, geom_vars>>

CityNext ==
    \/ MakeFloorsBegin
    \/ FloorsLoop
    \/ FloorsEnd
    \/ MakeRoof
    \/ MakeWindowsBegin
    \/ WindowsFloor
    \/ WindowsSide
    \/ WindowsSlot
    \/ MainAdopt

SpecCity == CityInit /\ [][CityNext]_vars

\* ------------------------------------------------------------ properties
\* q[1] + ... + q[m]
RECURSIVE SumTo(_, _)
SumTo(q, m) == IF m = 0 THEN 0 ELSE q[m] + SumTo(q, m - 1)

InWindows == pc \in {"win_floor", "win_side", "win_slot"}

AfterRoof == InWindows \/ pc \in {"windows", "done"}

\* C1: on every side make_windows visits, with W the side's length, w the
\* wider mesh's width, eps the edge clearance and sp the spacing, the slot
\* count n is floor((W - w - 2 eps) / (w + sp)) + 1 when w + 2 eps < W, i.e.
\* the n >= 1 with (n-1)(w+sp) <= W - w - 2 eps < n(w+sp), and counting takes
\* no draw; otherwise the side is left at once with no window and no draw.
\* For W = 20, w = 4, eps = 1, sp = 2 (10, 2, 0.5, 1) n is 3 and the
\* re-spread spacing is 3 (1.5).
C1_SlotCount ==
    [][ (pc = "win_side" /\ sk <= Len(border)) =>
        LET W == border[sk]
            w == window_width(params.win_pars)
            e == params.win_pars.windows_distance_from_edges
            sp == params.win_pars.windows_distance
        IN  /\ rng' = rng /\ windows' = windows
            /\ IF w + 2 * e < W
               THEN /\ pc' = "win_slot" /\ j' = 0
                    /\ n' >= 1
                    /\ (n' - 1) * (w + sp) <= W - w - 2 * e
                    /\ W - w - 2 * e < n' * (w + sp)
                    /\ (W = 20 /\ w = 4 /\ e = 1 /\ sp = 2
                          => n' = 3 /\ REq(s', 3, 1))
               ELSE pc' = "win_side" /\ sk' = sk + 1 ]_vars

\* C1 witness: the example side is being filled after a side too short for
\* any window was passed over.
C1_Witness ==
    /\ pc = "win_slot" /\ sk = 3 /\ border = <<20, 3, 20, 3>>
    /\ window_width(params.win_pars) = 4
    /\ params.win_pars.windows_distance_from_edges = 1
    /\ params.win_pars.windows_distance = 2
    /\ n = 3 /\ REq(s, 3, 1)
    /\ rng >= 3

\* windows created so far on the side being filled
OnThisSide == {k \in 1..Len(windows) : windows[k].floor = wi /\ windows[k].side = sk}

\* C2: the only window of a side that fits one window has its centre at
\* W/2 from the side's first vertex.
C2_SingleWindowCentred ==
    (pc = "win_slot" /\ n = 1) =>
        \A k \in OnThisSide : REq(windows[k].o, border[sk], 2)

\* C3: with filled_spots_ratio = 0 make_building returns no window instance.
C3_NoWindowWhenUnfilled ==
    (pc = "done" /\ params.win_pars.filled_spots_ratio = 0) =>
        /\ windows = <<>>
        /\ Len(instances) = 4

\* C4: bernoulli(1) is true and bernoulli(0) is false whatever the draw, so
\* every window made with open_windows_ratio = 1 has the open mesh and every
\* window made with open_windows_ratio = 0 has the closed mesh.
C4_RatioChoosesMesh ==
    windows # <<>> =>
        /\ \A r \in Draws : bernoulli(RMax, r) /\ ~bernoulli(0, r)
        /\ \A k \in 1..Len(windows) :
              /\ params.win_pars.open_windows_ratio = RMax
                    => windows[k].shp = params.win_pars.open_window_shape
              /\ params.win_pars.open_windows_ratio = 0
                    => windows[k].shp = params.win_pars.closed_window_shape

\* the conditions of the spec's invalid-parameters failure
BadWindowParams ==
    LET w == params.win_pars
    IN  \/ w.windows_distance < 0
        \/ w.open_window_shape.null \/ w.closed_window_shape.null
        \/ ~(0 <= w.open_windows_ratio /\ w.open_windows_ratio <= RMax)
        \/ ~(0 <= w.filled_spots_ratio /\ w.filled_spots_ratio <= RMax)

\* C5: make_windows throws "Invalid windows parameters" exactly when the
\* spacing is negative, a window mesh is null or a ratio is outside [0,1];
\* it has then made no window and taken no draw.
C5_WinInfoChecked ==
    /\ BadWindowParams => ~InWindows /\ pc # "done" /\ windows = <<>> /\ rng = 0
    /\ (BadWindowParams /\ pc = "failed" /\ Len(instances) = 4)
          => err = "Invalid windows parameters"
    /\ err = "Invalid windows parameters" => BadWindowParams /\ pc = "failed"

\* C5 witness: make_windows has thrown on a ratio just above 1.
C5_Witness ==
    /\ pc = "failed" /\ err = "Invalid windows parameters"
    /\ params.win_pars.filled_spots_ratio = RMax + 1
    /\ params.win_pars.windows_distance >= 0
    /\ ~params.win_pars.open_window_shape.null
    /\ Len(instances) = 4

\* the conditions of the spec's floor-builder failure
BadFloorArgs ==
    \/ params.num_floors = 0
    \/ params.floor_height <= 0
    \/ params.belt_height < 0
    \/ params.belt_additional_width <= 0

\* C6: for each of the three building types the floor builder throws when
\* num_floors = 0, floor_height <= 0, belt_height < 0 or
\* belt_additional_width <= 0: it never gets to build a floor.
C6_FloorArgsRejected ==
    (params.type \in BuildingTypes /\ BadFloorArgs /\ pc # "floors")
        => pc = "failed" /\ meshes = 0

\* reasons that report a malformed parameter
InvalidArgumentErrors ==
    {"Invalid arguments", "Invalid arguments.", "Invalid parameters",
     "Invalid roof angle", "Invalid windows parameters",
     "A polygon must have at least 3 sides."}

\* C7: when make_building fails on an invalid argument, no mesh and no
\* instance has been constructed yet.
C7_FailFast ==
    (pc = "failed" /\ err \in InvalidArgumentErrors)
        => meshes = 0 /\ instances = <<>>

\* a ridge roof on a building that has no spine
RidgeWithoutSpine ==
    /\ params.roof_pars.type \in {"crossgabled", "crosshipped"}
    /\ params.type \in {"border", "regular"}

\* C8: make_building never gets past the roof, and returns no instance list,
\* for a cross-gabled or cross-hipped roof on a border or regular building:
\* the roof step throws "Invalid parameters".  Roofs none and pyramid are not
\* rejected by the roof step on any building type.
C8_RidgeNeedsSpine ==
    /\ RidgeWithoutSpine => ~AfterRoof /\ r_shp = EmptyShape
    /\ (RidgeWithoutSpine /\ pc \in {"done", "failed", "crashed"})
          => pc = "failed" /\ err # ""
    /\ (RidgeWithoutSpine /\ pc = "failed" /\ Len(instances) = 2)
          => err = "Invalid parameters"
    /\ (params.roof_pars.type \in {"none", "pyramid"} /\ pc = "failed")
          => Len(instances) # 2 /\ err # "Invalid parameters"

\* C8 witness: a cross-hipped roof was refused on a regular building whose
\* floors had been built.
C8_Witness ==
    /\ pc = "failed" /\ err = "Invalid parameters"
    /\ params.roof_pars.type = "crosshipped" /\ params.type = "regular"
    /\ Len(instances) = 2

\* a ridge roof asked for a building with a spine
RidgeOnSpine ==
    /\ params.roof_pars.type \in {"crossgabled", "crosshipped"}
    /\ params.type = "main_points"

BadRoofAngle ==
    params.roof_pars.roof_angle <= 0 \/ params.roof_pars.roof_angle >= HalfPi

\* C9: make_roof_crossgabled_simple, called directly or through
\* make_roof_crosshipped_simple, throws "Invalid roof angle" and yields no
\* mesh when roof_angle <= 0 or roof_angle >= pi/2, and yields its mesh for
\* every angle strictly between.
C9_RoofAngle ==
    /\ (RidgeOnSpine /\ BadRoofAngle) => ~AfterRoof /\ r_shp = EmptyShape
    /\ (RidgeOnSpine /\ BadRoofAngle /\ pc = "failed" /\ Len(instances) = 2)
          => err = "Invalid roof angle"
    /\ err = "Invalid roof angle" => RidgeOnSpine /\ BadRoofAngle
    /\ (RidgeOnSpine /\ ~BadRoofAngle /\ AfterRoof)
          => /\ Len(r_shp) = 1
             /\ r_shp[1].kind = params.roof_pars.type
             /\ instances[3].shp = r_shp
    /\ \A ang \in -1..(HalfPi + 1) :
          LET g == make_roof_crossgabled_simple(<<0, 20>>, 6, ang, 5)
              hp == make_roof_crosshipped_simple(<<0, 20>>, 6, ang, 1, 5)
          IN  /\ (g.err = "Invalid roof angle") = (ang <= 0 \/ ang >= HalfPi)
              /\ (g.err = "") = (0 < ang /\ ang < HalfPi)
              /\ hp.err = g.err

\* C9 witness: a cross-hipped roof was refused for an angle of exactly pi/2.
C9_Witness ==
    /\ pc = "failed" /\ err = "Invalid roof angle"
    /\ params.roof_pars.type = "crosshipped"
    /\ params.roof_pars.roof_angle = HalfPi

\* C10: when the floor builder returns for N = num_floors >= 1 and a positive
\* belt_height, the floor mesh holds N slabs, slab i based at
\* i*(floor_height + belt_height), and the belt mesh holds N-1 slabs, belt i
\* based at i*(floor_height + belt_height) + floor_height, on the zero and on
\* the non-zero width-delta path.
C10_FloorStack ==
    (Len(instances) >= 2 /\ params.num_floors >= 1 /\ params.belt_height > 0) =>
        LET N == params.num_floors
            storey == params.floor_height + params.belt_height
            fl == instances[1].shp
            bl == instances[2].shp
        IN  /\ Len(fl) = N
            /\ \A i \in 0..(N - 1) :
                  fl[i + 1].y = i * storey /\ fl[i + 1].h = params.floor_height
            /\ Len(bl) = N - 1
            /\ \A i \in 0..(N - 2) :
                  /\ bl[i + 1].y = i * storey + params.floor_height
                  /\ bl[i + 1].h = params.belt_height

\* C10 witness: the floor builder has returned the tallest stack on the
\* width-delta path.
C10_Witness ==
    /\ Len(instances) >= 2
    /\ params.num_floors = MaxFloors
    /\ params.belt_height > 0
    /\ params.width_delta_per_floor # 0
    /\ Len(instances[2].shp) = MaxFloors - 1

\* the floor builder has returned and make_building holds its two meshes
FloorsBuilt == Len(instances) >= 2

\* C11: when belt_height is 0 the floor builder, for every num_floors >= 1,
\* building type and width delta, returns an empty belt mesh.
C11_NoBeltWhenFlat ==
    (FloorsBuilt /\ params.num_floors >= 1 /\ params.belt_height = 0)
        => instances[2].shp = EmptyShape

\* parameters the floor builder is specified to accept
ValidStack ==
    /\ params.num_floors >= 1 /\ params.floor_height > 0
    /\ params.belt_height >= 0 /\ params.belt_additional_width > 0

\* make_building holds the roof and its shell
RoofBuilt == Len(instances) >= 4

\* C12: for every accepted roof and building type over a valid stack, the
\* roof mesh and the thickness shell are based at
\* num_floors*floor_height + (num_floors-1)*belt_height, which is the top of
\* the highest slab of the floor mesh.
C12_RoofOnTop ==
    (RoofBuilt /\ ValidStack /\ params.roof_pars.type # "none") =>
        LET N == params.num_floors
            top == N * params.floor_height + (N - 1) * params.belt_height
            fl == instances[1].shp
            rr == instances[3].shp
            rt == instances[4].shp
        IN  /\ Len(rr) = 1 /\ rr[1].y = top
            /\ Len(fl) = N /\ fl[N].y + fl[N].h = top
            /\ rt # EmptyShape => rt[1].y = top

\* C12 witness: a cross-gabled roof with its shell sits on the tallest stack
\* with belts.
C12_Witness ==
    /\ RoofBuilt
    /\ params.num_floors = MaxFloors /\ params.belt_height > 0
    /\ params.roof_pars.type = "crossgabled"
    /\ instances[4].shp # EmptyShape
    /\ instances[3].shp[1].y
         = MaxFloors * params.floor_height + (MaxFloors - 1) * params.belt_height

\* C13: for a roof of type none make_building returns the floor and belt
\* instances followed by the window instances, and no roof or roof-thickness
\* instance.
C13_NoRoofInstance ==
    (pc = "done" /\ params.roof_pars.type = "none") =>
        /\ Len(instances) = 2 + Len(windows)
        /\ \A k \in 1..Len(instances) :
              instances[k].name.base \notin {"_rr", "_rt"}

\* C17: the windows created so far carry the names "_0", "_1", ... in
\* creation order without gaps, whatever slots were skipped, so no two
\* windows of a building share a name.
C17_UniqueNames ==
    /\ win_id = Len(windows)
    /\ \A k \in 1..Len(windows) : windows[k].name = Name("_", k - 1)
    /\ \A k, l \in 1..Len(windows) : k # l => windows[k].name # windows[l].name
    /\ pc = "done" =>
          \A k, l \in 1..Len(instances) :
             k # l => instances[k].name # instances[l].name

\* C17 witness: make_building returned three windows of which the second
\* does not sit in the slot after the first one's, a slot having been skipped.
C17_Witness ==
    /\ pc = "done" /\ Len(windows) >= 3
    /\ windows[1].side = windows[2].side
    /\ windows[2].slot > windows[1].slot + 1

\* C14: the mesh thicken_polygon returns for a polygon without holes is a
\* closed 2-manifold over its position indices: every edge of a wall quad
\* or of a cap triangle borders exactly two faces.
C14_ThickenedIsClosed ==
    g_op = "thicken_polygon" => IsClosedManifold(g_out)

\* C15: for a polyline of P >= 2 points and a positive width,
\* make_wide_line_border returns a simple polygon of 2P vertices: the
\* even-indexed strip vertices forward, then the odd-indexed ones backward,
\* every strip vertex once.
C15_WideLineBorderSimple ==
    g_op = "make_wide_line_border" =>
        LET P == Len(g_in.points)
            strip == make_wide_line(g_in.points, g_in.width).pos
            order == wide_line_border_order(2 * P)
        IN  /\ Len(g_out) = 2 * P
            /\ \A i \in 0..(2 * P - 1) :
                  Cardinality({k \in 1..(2 * P) : order[k] = i}) = 1
            /\ \A k \in 1..P : order[k] = 2 * (k - 1)
            /\ \A k \in 1..P : order[P + k] = 2 * P - 1 - 2 * (k - 1)
            /\ \A k \in 1..(2 * P) : g_out[k] = strip[order[k] + 1]
            /\ IsSimplePolygon(g_out)

\* C16: make_regular_polygon returns, for n >= 3, exactly n points at
\* distance r from the origin, each 1/n of a turn after the one before, the
\* first point not repeated at the end; for n < 3 it throws and returns no
\* point.
C16_RegularPolygon ==
    g_op = "make_regular_polygon" =>
        LET num == g_in.num_sides
            pts == g_out.val
        IN  IF num >= 3
            THEN /\ g_out.err = ""
                 /\ Len(pts) = num
                 /\ \A k \in 1..num : Abs(pts[k].radius) = g_in.radius
                 /\ \A k \in 1..(num - 1) :
                       /\ pts[k + 1].turn_den = pts[k].turn_den
                       /\ (pts[k + 1].turn_num - pts[k].turn_num) * num = pts[k].turn_den
                 /\ \A k, l \in 1..num :
                       k # l => (pts[k].turn_num - pts[l].turn_num) % pts[k].turn_den # 0
            ELSE /\ g_out.err = "A polygon must have at least 3 sides."
                 /\ pts = NULL

\* C16 witness: the largest polygon tried came back, rotated by half a step.
C16_Witness ==
    /\ g_op = "make_regular_polygon"
    /\ g_in.num_sides = MaxSides /\ g_in.xy_aligned
    /\ g_out.err = "" /\ Len(g_out.val) = MaxSides

\* C20: for a spine of P >= 2 main points (a polygon, for thicken_polygon)
\* the mesh returned by make_roof_crossgabled_simple,
\* make_roof_crosshipped_simple, make_roof_crossgabled_thickness and
\* thicken_polygon has every face index in [0, number of positions), as many
\* normals as positions, and was built without an access outside an array.
C20_MeshInvariant ==
    g_op \in {"make_roof_crossgabled_simple", "make_roof_crosshipped_simple",
              "make_roof_crossgabled_thickness", "thicken_polygon"}
        => IndicesValid(g_out)

\* C20 witness: the thickness shell over the longest spine, both overhang
\* steps taken.
C20_Witness ==
    /\ g_op = "make_roof_crossgabled_thickness"
    /\ g_in.P = MaxPoints
    /\ g_in.rake_overhang > 0 /\ g_in.roof_overhang > 0
    /\ g_out.npos = 6 * MaxPoints /\ Len(g_out.quads) = 6 * (MaxPoints - 1) + 4

C19_NoSharedMesh ==
    /\ \A a, b \in scene : a.building # b.building => a.mesh # b.mesh
    /\ \A w \in writes : \A a \in scene :
          a.mesh = w.mesh => a.building = w.during

\* C21: for a polyline of P >= 2 points make_wide_line returns 2P vertices
\* and a strip of exactly P-1 quads, quad k joining vertex pair k to vertex
\* pair k+1; a polyline of two points yields one quad.
C21_WideLineStrip ==
    g_op = "make_wide_line" =>
        LET P == Len(g_in.points)
        IN  /\ Len(g_out.pos) = 2 * P
            /\ Len(g_out.quads) = P - 1
            /\ \A k \in 1..Len(g_out.quads) :
                  g_out.quads[k] =
                      <<2 * (k - 1), 2 * (k - 1) + 1, 2 * k + 1, 2 * k>>

\* C22: in thicken_polygon every hole of h vertices gets a full ring of h
\* side quads, one per hole edge, the closing edge from its last vertex back
\* to its first included, as the border of n vertices gets n side quads.
C22_HoleWallsClosed ==
    g_op = "thicken_polygon, holes" =>
        LET B == g_in.B
            holes == g_in.holes
            base(m) == 2 * B + 2 * SumTo(holes, m - 1)
            ring(ps, hs) ==
                { <<ps + i, ps + ((i + 1) % hs),
                    ps + hs + ((i + 1) % hs), ps + hs + i>> : i \in 0..(hs - 1) }
            has(q) == \E k \in 1..Len(g_out.quads) :
                         FaceEdges(g_out.quads[k]) = FaceEdges(q)
        IN  /\ Len(g_out.quads) = B + SumTo(holes, Len(holes))
            /\ \A q \in ring(0, B) : has(q)
            /\ \A m \in 1..Len(holes) : \A q \in ring(base(m), holes[m]) : has(q)

\* the main point whose six vertices hold position index v
GroupOf(v) == v \div 6

\* the quads of mesh m whose corners lie in the main-point groups gs
QuadsOver(m, gs) ==
    {k \in 1..Len(m.quads) :
        {GroupOf(m.quads[k][c]) : c \in 1..4} = gs}

\* C24: over a spine of P >= 2 main points make_roof_crossgabled_thickness
\* returns 6P vertices and 6(P-1) + 4 quads: six quads between every two
\* consecutive main points, two end-cap quads on the first main point, two on
\* the last, and no quad lying on a single interior main point.
C24_ThicknessShell ==
    g_op = "make_roof_crossgabled_thickness" =>
        LET P == g_in.P
        IN  /\ g_out.npos = 6 * P
            /\ Len(g_out.quads) = 6 * (P - 1) + 4
            /\ \A g \in 0..(P - 2) :
                  Cardinality(QuadsOver(g_out, {g, g + 1})) = 6
            /\ \A g \in 0..(P - 1) :
                  Cardinality(QuadsOver(g_out, {g})) =
                      (IF g = 0 THEN 2 ELSE 0) + (IF g = P - 1 THEN 2 ELSE 0)

\* C24 witness: a shell over a spine with an interior main point
C24_Witness ==
    /\ g_op = "make_roof_crossgabled_thickness"
    /\ g_in.P >= 3
    /\ QuadsOver(g_out, {1}) = {}
    /\ QuadsOver(g_out, {0}) # {} /\ QuadsOver(g_out, {g_in.P - 1}) # {}

\* C23: over a spine of P >= 2 main points make_roof_crossgabled_simple
\* returns 3P vertices, the 2P border vertices and then P ridge vertices,
\* ridge vertex k the mean of border vertices k and 2P-1-k raised by
\* center_height; 3(P-1) quads, for every segment a base quad and two slope
\* quads; and two gable triangles, one at each end of the spine.
C23_CrossgabledShape ==
    g_op = "make_roof_crossgabled_simple, points" =>
        LET P == Len(g_in.points)
            rim == wide_line_border_points(g_in.points, g_in.width)
            up == center_height(g_in.roof_angle, g_in.width)
            quad(k) == g_out.quads[k]
        IN  /\ g_out.npos = 3 * P /\ Len(g_out.pos) = 3 * P
            /\ \A k \in 0..(2 * P - 1) : g_out.pos[k + 1] = to_3d(rim[k + 1])
            /\ \A k \in 0..(P - 1) :
                  g_out.pos[2 * P + k + 1] =
                      Midpoint(to_3d(rim[k + 1]), to_3d(rim[2 * P - k]), up)
            /\ Len(g_out.quads) = 3 * (P - 1)
            /\ \A sg \in 0..(P - 2) :
                  /\ FaceEdges(quad(3 * sg + 1)) =
                        FaceEdges(<<sg, sg + 1, 2 * P - 2 - sg, 2 * P - 1 - sg>>)
                  /\ FaceEdges(quad(3 * sg + 2)) =
                        FaceEdges(<<2 * P - 1 - sg, 2 * P - 2 - sg,
                                    2 * P + sg + 1, 2 * P + sg>>)
                  /\ FaceEdges(quad(3 * sg + 3)) =
                        FaceEdges(<<sg, sg + 1, 2 * P + sg + 1, 2 * P + sg>>)
            /\ Len(g_out.triangles) = 2
            /\ FaceEdges(g_out.triangles[1]) = FaceEdges(<<0, 2 * P, 2 * P - 1>>)
            /\ FaceEdges(g_out.triangles[2]) = FaceEdges(<<P - 1, 3 * P - 1, P>>)

\* C23 witness: a roof over a spine with a bend, its ridge above the border
C23_Witness ==
    /\ g_op = "make_roof_crossgabled_simple, points"
    /\ Len(g_in.points) >= 3
    /\ \E k \in 1..(Len(g_in.points) - 2) :
          g_in.points[k + 1].x - g_in.points[k].x #
              g_in.points[k + 2].x - g_in.points[k + 1].x
    /\ g_out.pos[g_out.npos].y > 0

\* C25: whatever the hip depth, make_roof_crosshipped_simple returns the
\* cross-gabled mesh of the same inputs with nothing changed but the
\* positions of the first and the last ridge vertex (indices 2P and 3P-1):
\* the vertex count, the triangles, the quads and every other position are
\* those of the cross-gabled mesh.
C25_HipMovesRidgeEnds ==
    g_op = "make_roof_crosshipped_simple, points" =>
        LET P == Len(g_in.points)
            gabled == crossgabled_simple_mesh(P)
            gabled_pos == crossgabled_simple_pos(g_in.points, g_in.width,
                                                 g_in.roof_angle)
        IN  /\ g_out.npos = gabled.npos /\ Len(g_out.pos) = Len(gabled_pos)
            /\ g_out.triangles = gabled.triangles
            /\ g_out.quads = gabled.quads
            /\ \A k \in 0..(3 * P - 1) :
                  k \notin {2 * P, 3 * P - 1} => g_out.pos[k + 1] = gabled_pos[k + 1]

\* C25 witness: a hip deeper than the end segment is long, both ridge ends
\* moved
C25_Witness ==
    /\ g_op = "make_roof_crosshipped_simple, points"
    /\ g_in.hip_depth = 200
    /\ LET P == Len(g_in.points)
           gabled_pos == crossgabled_simple_pos(g_in.points, g_in.width,
                                                g_in.roof_angle)
       IN  /\ g_out.pos[2 * P + 1] # gabled_pos[2 * P + 1]
           /\ g_out.pos[3 * P] # gabled_pos[3 * P]

\* offsetting the border for floor i gives no polygon
NoPolygonAt(P, i) ==
    /\ P.type = "border"
    /\ Len(offset_polygon(P.floor_border, P.width_delta_per_floor * i)) # 1

\* C26: when an offsetting call made while generating a building returns a
\* number of polygons other than one, the caller fails with an error: it
\* neither indexes the empty result nor goes on with a polygon. So no run
\* ends in undefined behaviour, the floors are finished only if every
\* floor's offset gave one polygon, and windows are placed on floor wi only
\* if its offset did.
C26_OffsetResultChecked ==
    /\ pc # "crashed"
    /\ (pc \in {"roof", "windows", "win_floor", "win_side", "win_slot", "done"}
        /\ params.width_delta_per_floor # 0)
          => \A i \in 1..(params.num_floors - 1) : ~NoPolygonAt(params, i)
    /\ pc \in {"win_side", "win_slot"} => ~NoPolygonAt(params, wi)

\* C27: on a run of the floor builder that returns, every scratch floor and
\* belt mesh is deleted once, after its last merge and before the return:
\* none is merged or displaced once deleted, none is deleted twice, and at
\* the return none is still allocated, one pair having been made on the path
\* without width delta and one pair per floor on the path with it.
C27_ScratchReleased ==
    /\ pc # "crashed" => heap.misuse = {}
    /\ (FloorsBuilt /\ params.num_floors >= 1) =>
          /\ heap.live = {}
          /\ Cardinality(heap.deleted) =
                IF params.width_delta_per_floor = 0 THEN 2
                ELSE 2 * params.num_floors

\* C27 witness: three floors of changing width have been built
C27_Witness ==
    /\ FloorsBuilt /\ pc # "crashed"
    /\ params.width_delta_per_floor # 0 /\ params.num_floors = 3
    /\ Cardinality(heap.deleted) = 6

\* C28: on a side with n >= 2 slots, with eps >= 0 and s >= 0, the spacing
\* after re-spreading is at least the configured spacing, slot j is centred
\* at eps + w/2 + j*(w + s') from the side's first vertex, every window of
\* width w lies within [eps, W - eps], the last one ending at W - eps, and
\* consecutive windows do not overlap.
C28_WindowsWithinSide ==
    (pc = "win_slot" /\ n >= 2
     /\ params.win_pars.windows_distance_from_edges >= 0
     /\ params.win_pars.windows_distance >= 0) =>
        LET eps0 == params.win_pars.windows_distance_from_edges
            s0 == params.win_pars.windows_distance
            w == window_width(params.win_pars)
            W == border[sk]
            centre(jj) ==
                RAdd(RInt(eps0), RAdd(R(w, 2), RMul(RInt(jj), RAdd(RInt(w), s))))
            left(jj) == RAdd(centre(jj), R(-w, 2))
            right(jj) == RAdd(centre(jj), R(w, 2))
        IN  /\ RLeq(RInt(s0), s)
            /\ \A jj \in 0..(n - 1) :
                  /\ RLeq(RInt(eps0), left(jj))
                  /\ RLeq(right(jj), RInt(W - eps0))
            /\ REq(right(n - 1), W - eps0, 1)
            /\ \A jj \in 0..(n - 2) : RLeq(right(jj), left(jj + 1))
            /\ \A k \in 1..Len(windows) :
                  (windows[k].floor = wi /\ windows[k].side = sk) =>
                      /\ IsFinite(windows[k].o)
                      /\ RLeq(windows[k].o, centre(windows[k].slot))
                      /\ RLeq(centre(windows[k].slot), windows[k].o)

\* C28 witness: a side of three slots all handled, two windows kept on it,
\* the spacing widened by the re-spread
C28_Witness ==
    /\ pc = "win_slot" /\ n = 3 /\ j = n
    /\ params.win_pars.windows_distance_from_edges > 0
    /\ ~RLeq(s, RInt(params.win_pars.windows_distance))
    /\ Cardinality({k \in 1..Len(windows) :
                       windows[k].floor = wi /\ windows[k].side = sk}) >= 2

\* every offset of the border for the floors 0..N-1 gives one polygon
OffsetsGiveOnePolygon ==
    \A i \in 0..(params.num_floors - 1) : ~NoPolygonAt(params, i)

\* C29: for every building type and every floor i the border make_windows
\* lays the windows of floor i along is the border of floor slab i, the base
\* shape adjusted by i * width_delta_per_floor, and the footprint of the roof
\* is the border of the top floor slab.
C29_SameBorders ==
    (OffsetsGiveOnePolygon /\ pc # "crashed") =>
        /\ (pc \in {"win_side", "win_slot"} /\ wi < Len(floor_shp)) =>
              border = floor_shp[wi + 1].border
        /\ (RoofBuilt /\ r_shp # <<>> /\ params.num_floors >= 1
            /\ Len(floor_shp) = params.num_floors) =>
              r_shp[1].border = floor_shp[params.num_floors].border

\* C29 witness: windows on the top floor of three that change width, under a
\* roof
C29_Witness ==
    /\ pc = "win_slot" /\ wi = 2 /\ params.num_floors = 3
    /\ params.width_delta_per_floor # 0
    /\ r_shp # <<>>
    /\ border = floor_shp[3].border /\ border # floor_shp[1].border
    /\ r_shp[1].border = border

\* the slots on each side of floor i
SlotsOfSides(P, i) ==
    LET b == (CHOOSE o \in window_border(P, i) : TRUE).poly
        w == window_width(P.win_pars)
        e == P.win_pars.windows_distance_from_edges
        d == P.win_pars.windows_distance
    IN  [k \in 1..Len(b) |->
            IF w + 2 * e >= b[k] THEN 0
            ELSE LET c == trunc_div(b[k] - w - 2 * e, w + d) + 1
                 IN  IF c > 0 THEN c ELSE 0]

\* the slots of each floor
SlotsOfFloors(P) ==
    [f \in 1..P.num_floors |->
        SumTo(SlotsOfSides(P, f - 1), Len(SlotsOfSides(P, f - 1)))]

\* the slots make_windows has been through
SlotsSoFar ==
    SumTo(SlotsOfFloors(params), IF pc = "done" THEN params.num_floors ELSE wi)
    + (IF pc \in {"win_side", "win_slot"}
       THEN SumTo(SlotsOfSides(params, wi), sk - 1) ELSE 0)
    + (IF pc = "win_slot" THEN j ELSE 0)

\* window a comes before window b in floor, side, slot order
SlotBefore(a, b) ==
    \/ a.floor < b.floor
    \/ a.floor = b.floor /\ a.side < b.side
    \/ a.floor = b.floor /\ a.side = b.side /\ a.slot < b.slot

\* C30: make_building changes no field of its parameters and draws from the
\* RNG during window placement only, floor by floor, side by side, slot by
\* slot: one draw per slot and one more per window created, so that the
\* draws taken are the slots gone through plus the windows made, and none
\* when there is no slot.
C30_DrawsPerSlot ==
    /\ [](pc \in {"floors", "floor_loop", "roof", "windows"} => rng = 0)
    /\ []((pc \in {"win_floor", "win_side", "win_slot", "done"}
           /\ OffsetsGiveOnePolygon) =>
             /\ rng = SlotsSoFar + Len(windows)
             /\ \A a, b \in 1..Len(windows) :
                   a < b => SlotBefore(windows[a], windows[b]))
    /\ [][params' = params /\ (rng' # rng => pc = "win_slot")]_vars

\* C30 witness: a building returned after slots on two floors, with a window
\* made and a slot left empty
C30_Witness ==
    /\ pc = "done" /\ params.num_floors >= 2
    /\ Len(windows) >= 1
    /\ rng = SlotsSoFar + Len(windows)
    /\ SlotsSoFar > Len(windows)
    /\ \E k \in 1..Len(windows) : windows[k].floor = 1

====
